---- MODULE Spec2Model ----
(***************************************************************************)
(* Verification model of the case-analysis pipeline: the date normalizer   *)
(* and district canonicalizer of database.py, the case ledger they feed,   *)
(* and the document loader of main.py.                                     *)
(*                                                                         *)
(* Text is modelled character by character: a Python str is a sequence of  *)
(* one-character strings, so that substring search, replace, strip, lower  *)
(* and title are computed as Python computes them.                         *)
(***************************************************************************)
EXTENDS Integers, Sequences, FiniteSets, TLC

\* Python's None, for text values and for dates.
None == <<"<None>">>
NoDate == [y |-> 0, m |-> 0, d |-> 0]
\* A JSON number (20240101) where a text was expected: truthy, and no str.
Number == <<"<number>">>

---------------------------------------------------------------------------
\* str primitives

Letters == <<"a", "b", "c", "d", "e", "f", "g", "h", "i", "j", "k", "l", "m", "n", "o", "p", "q", "r", "s", "t", "u", "v", "w", "x", "y", "z">>
Capitals == <<"A", "B", "C", "D", "E", "F", "G", "H", "I", "J", "K", "L", "M", "N", "O", "P", "Q", "R", "S", "T", "U", "V", "W", "X", "Y", "Z">>
Digits == <<"0", "1", "2", "3", "4", "5", "6", "7", "8", "9">>

LetterIndex == [c \in {Letters[i] : i \in DOMAIN Letters} |-> CHOOSE i \in DOMAIN Letters : Letters[i] = c]
CapitalIndex == [c \in {Capitals[i] : i \in DOMAIN Capitals} |-> CHOOSE i \in DOMAIN Capitals : Capitals[i] = c]
DigitValue == [c \in {Digits[i] : i \in DOMAIN Digits} |-> (CHOOSE i \in DOMAIN Digits : Digits[i] = c) - 1]

IsLower(c) == c \in DOMAIN LetterIndex
IsUpper(c) == c \in DOMAIN CapitalIndex
IsAlpha(c) == IsLower(c) \/ IsUpper(c)
IsDigit(c) == c \in DOMAIN DigitValue
IsSpace(c) == c \in {" ", "\t", "\n"}
\* a regex word character (\w), the class \b is defined by
IsWord(c) == IsAlpha(c) \/ IsDigit(c) \/ c = "_"

LowerChar(c) == IF IsUpper(c) THEN Letters[CapitalIndex[c]] ELSE c
UpperChar(c) == IF IsLower(c) THEN Capitals[LetterIndex[c]] ELSE c

\* str.lower()
lower(s) == [i \in 1..Len(s) |-> LowerChar(s[i])]
\* str.upper()
upper(s) == [i \in 1..Len(s) |-> UpperChar(s[i])]

\* str.title(): a letter is upper-cased after a non-letter, lower-cased after a letter
title(s) == [i \in 1..Len(s) |-> IF i > 1 /\ IsAlpha(s[i - 1]) THEN LowerChar(s[i]) ELSE UpperChar(s[i])]

\* str.strip()
strip(s) ==
  LET keep == {i \in 1..Len(s) : ~IsSpace(s[i])}
  IN IF keep = {} THEN <<>>
     ELSE SubSeq(s, CHOOSE i \in keep : \A j \in keep : i <= j,
                    CHOOSE i \in keep : \A j \in keep : i >= j)

\* s[i:].startswith(pat), with i counted from 1
MatchAt(s, i, pat) == i + Len(pat) - 1 <= Len(s) /\ \A k \in 1..Len(pat) : s[i + k - 1] = pat[k]
\* str.startswith / str.endswith
startswith(s, pat) == MatchAt(s, 1, pat)
endswith(s, pat) == Len(pat) <= Len(s) /\ MatchAt(s, Len(s) - Len(pat) + 1, pat)
\* pat in s
Contains(s, pat) == \E i \in 1..(Len(s) - Len(pat) + 1) : MatchAt(s, i, pat)

\* str.replace(old, new): non-overlapping occurrences, left to right
RECURSIVE ReplaceFrom(_, _, _, _)
ReplaceFrom(s, i, old, new) ==
  IF i > Len(s) THEN <<>>
  ELSE IF MatchAt(s, i, old) THEN new \o ReplaceFrom(s, i + Len(old), old, new)
  ELSE <<s[i]>> \o ReplaceFrom(s, i + 1, old, new)
replace(s, old, new) == ReplaceFrom(s, 1, old, new)

\* the concatenation of a sequence of text fragments
RECURSIVE Join(_)
Join(frags) == IF frags = <<>> THEN <<>> ELSE Head(frags) \o Join(Tail(frags))

---------------------------------------------------------------------------
\* Date normalizer (database.py, parse_date)

\* the ValueError that datetime.strptime and datetime() raise
ValueError == [y |-> -1, m |-> -1, d |-> -1]
\* the AttributeError of date_str.strip() on a value that is no str
AttributeError == [y |-> -2, m |-> -2, d |-> -2]

\* the formats list: a directive is "%Y", "%y", "%m", "%d" or "%B", a blank
\* of the format matches \s+, any other character matches itself
formats == <<
  <<"%Y", "-", "%m", "-", "%d">>,
  <<"%d", "-", "%m", "-", "%Y">>,
  <<"%d", ".", "%m", ".", "%Y">>,
  <<"%d", "/", "%m", "/", "%Y">>,
  <<"%d", "/", "%m", "/", "%y">>,
  <<"%Y", "/", "%m", "/", "%d">>,
  <<"%d", " ", "%B", ",", " ", "%Y">>,
  <<"%B", " ", "%d", ",", " ", "%Y">> >>

\* %B: the full month names, matched without regard to case
MonthNames == <<<<"j", "a", "n", "u", "a", "r", "y">>, <<"f", "e", "b", "r", "u", "a", "r", "y">>, <<"m", "a", "r", "c", "h">>, <<"a", "p", "r", "i", "l">>, <<"m", "a", "y">>, <<"j", "u", "n", "e">>, <<"j", "u", "l", "y">>,
                <<"a", "u", "g", "u", "s", "t">>, <<"s", "e", "p", "t", "e", "m", "b", "e", "r">>, <<"o", "c", "t", "o", "b", "e", "r">>, <<"n", "o", "v", "e", "m", "b", "e", "r">>, <<"d", "e", "c", "e", "m", "b", "e", "r">>>>

\* the months table of the verbose extractor, in its insertion order
months == <<
  [name |-> <<"j", "a", "n", "u", "a", "r", "y">>, val |-> 1], [name |-> <<"f", "e", "b", "r", "u", "a", "r", "y">>, val |-> 2],
  [name |-> <<"m", "a", "r", "c", "h">>, val |-> 3], [name |-> <<"a", "p", "r", "i", "l">>, val |-> 4],
  [name |-> <<"m", "a", "y">>, val |-> 5], [name |-> <<"j", "u", "n", "e">>, val |-> 6],
  [name |-> <<"j", "u", "l", "y">>, val |-> 7], [name |-> <<"a", "u", "g", "u", "s", "t">>, val |-> 8],
  [name |-> <<"s", "e", "p", "t", "e", "m", "b", "e", "r">>, val |-> 9], [name |-> <<"o", "c", "t", "o", "b", "e", "r">>, val |-> 10],
  [name |-> <<"n", "o", "v", "e", "m", "b", "e", "r">>, val |-> 11], [name |-> <<"d", "e", "c", "e", "m", "b", "e", "r">>, val |-> 12],
  [name |-> <<"j", "a", "n">>, val |-> 1], [name |-> <<"f", "e", "b">>, val |-> 2], [name |-> <<"m", "a", "r">>, val |-> 3],
  [name |-> <<"a", "p", "r">>, val |-> 4], [name |-> <<"j", "u", "n">>, val |-> 6], [name |-> <<"j", "u", "l">>, val |-> 7],
  [name |-> <<"a", "u", "g">>, val |-> 8], [name |-> <<"s", "e", "p">>, val |-> 9], [name |-> <<"s", "e", "p", "t">>, val |-> 9],
  [name |-> <<"o", "c", "t">>, val |-> 10], [name |-> <<"n", "o", "v">>, val |-> 11], [name |-> <<"d", "e", "c">>, val |-> 12] >>

\* int() of a run of decimal digits
RECURSIVE ToInt(_)
ToInt(ds) == IF ds = <<>> THEN 0 ELSE 10 * ToInt(SubSeq(ds, 1, Len(ds) - 1)) + DigitValue[ds[Len(ds)]]

AllDigits(s, i, n) == i + n - 1 <= Len(s) /\ \A k \in i..(i + n - 1) : IsDigit(s[k])

IsLeap(y) == (y % 4 = 0 /\ y % 100 # 0) \/ y % 400 = 0
DaysInMonth(y, m) ==
  IF m = 2 THEN (IF IsLeap(y) THEN 29 ELSE 28)
  ELSE IF m \in {4, 6, 9, 11} THEN 30 ELSE 31

\* datetime(y, m, d): the date, or ValueError when it is no calendar date
datetime(y, m, d) ==
  IF y >= 1 /\ y <= 9999 /\ m >= 1 /\ m <= 12 /\ d >= 1 /\ d <= DaysInMonth(y, m)
  THEN [y |-> y, m |-> m, d |-> d]
  ELSE ValueError

\* The ways one format element can match s at position i: how many characters
\* it takes and the field it sets. These are the alternatives of the regular
\* expression _strptime builds for the directive.
DirectiveMatches(e, s, i) ==
  IF e = "%Y" THEN
    IF AllDigits(s, i, 4)
    THEN {[len |-> 4, fld |-> "y", val |-> ToInt(SubSeq(s, i, i + 3))]}
    ELSE {}
  ELSE IF e = "%y" THEN
    IF AllDigits(s, i, 2)
    THEN LET v == ToInt(SubSeq(s, i, i + 1))
         IN {[len |-> 2, fld |-> "y", val |-> (IF v <= 68 THEN 2000 ELSE 1900) + v]}
    ELSE {}
  ELSE IF e = "%m" THEN
    {[len |-> n, fld |-> "m", val |-> ToInt(SubSeq(s, i, i + n - 1))] :
       n \in {n \in {1, 2} : /\ AllDigits(s, i, n)
                             /\ LET v == ToInt(SubSeq(s, i, i + n - 1))
                                IN IF n = 2 THEN v >= 1 /\ v <= 12 ELSE v >= 1}}
  ELSE IF e = "%d" THEN
    {[len |-> n, fld |-> "d", val |-> ToInt(SubSeq(s, i, i + n - 1))] :
       n \in {n \in {1, 2} : /\ AllDigits(s, i, n)
                             /\ LET v == ToInt(SubSeq(s, i, i + n - 1))
                                IN IF n = 2 THEN v >= 1 /\ v <= 31 ELSE v >= 1}}
    \cup (IF i + 1 <= Len(s) /\ s[i] = " " /\ IsDigit(s[i + 1]) /\ s[i + 1] # "0"
          THEN {[len |-> 2, fld |-> "d", val |-> DigitValue[s[i + 1]]]}
          ELSE {})
  ELSE IF e = "%B" THEN
    {[len |-> Len(MonthNames[k]), fld |-> "m", val |-> k] :
       k \in {k \in DOMAIN MonthNames :
                /\ i + Len(MonthNames[k]) - 1 <= Len(s)
                /\ lower(SubSeq(s, i, i + Len(MonthNames[k]) - 1)) = MonthNames[k]}}
  ELSE IF e = " " THEN
    {[len |-> n, fld |-> "_", val |-> 0] :
       n \in {n \in 1..(Len(s) - i + 1) : \A k \in i..(i + n - 1) : IsSpace(s[k])}}
  ELSE IF i <= Len(s) /\ s[i] = e
    THEN {[len |-> 1, fld |-> "_", val |-> 0]}
    ELSE {}

\* every way fmt, from its element k on, matches all of s from position i on
RECURSIVE FormatMatches(_, _, _, _, _)
FormatMatches(fmt, k, s, i, acc) ==
  IF k > Len(fmt) THEN (IF i = Len(s) + 1 THEN {acc} ELSE {})
  ELSE UNION {FormatMatches(fmt, k + 1, s, i + o.len, [acc EXCEPT ![o.fld] = o.val]) :
                o \in DirectiveMatches(fmt[k], s, i)}

\* datetime.strptime(s, fmt).date(): the date, or ValueError when s does not
\* match the format to its end or the fields are no calendar date
DateOfFields(f) == datetime(f["y"], f["m"], f["d"])
DateOfMatches(found) == IF found = {} THEN ValueError ELSE DateOfFields(CHOOSE f \in found : TRUE)
strptime(s, fmt) == DateOfMatches(FormatMatches(fmt, 1, s, 1, [f \in {"y", "m", "d", "_"} |-> 0]))

\* re.sub(r"(\d+)(suf|...)", r"\1", s): an ordinal suffix that directly follows
\* a digit is dropped
RECURSIVE SubOrdinalFrom(_, _, _)
SubOrdinalFrom(s, i, sufs) ==
  IF i > Len(s) THEN <<>>
  ELSE IF i > 1 /\ IsDigit(s[i - 1]) /\ \E u \in sufs : MatchAt(s, i, u)
       THEN SubOrdinalFrom(s, i + 2, sufs)
       ELSE <<s[i]>> \o SubOrdinalFrom(s, i + 1, sufs)

\* s_clean: the four suffixes are removed one after the other
s_clean(s) ==
  SubOrdinalFrom(SubOrdinalFrom(SubOrdinalFrom(SubOrdinalFrom(s, 1, {<<"s", "t">>}), 1, {<<"n", "d">>}), 1, {<<"r", "d">>}), 1, {<<"t", "h">>})

\* the year test left out
TooFarAhead_dropped(d, now_year) == FALSE

\* d.year > datetime.now().year + 1
TooFarAhead(d, now_year) == d.y > now_year + 1

\* the iteration with "return None" where the code has "continue"
\* What an iteration does with the value d of a strptime call: the candidate
\* is returned, or dropped for its year and the loop continues; "except" when
\* the call raised ValueError.
Candidate(d, now_year) ==
  IF d = ValueError THEN [kind |-> "except", date |-> NoDate, rejected |-> FALSE, raised |-> FALSE]
  ELSE IF TooFarAhead(d, now_year)
  THEN [kind |-> "continue", date |-> NoDate, rejected |-> TRUE, raised |-> FALSE]
  ELSE [kind |-> "return", date |-> d, rejected |-> FALSE, raised |-> FALSE]

\* the second attempt, made in the handler of the first one's ValueError
OrElse(first, second) ==
  IF first.kind # "except" THEN first
  ELSE IF second.kind # "except" THEN second
  ELSE [kind |-> "continue", date |-> NoDate, rejected |-> FALSE, raised |-> FALSE]

\* "return None" where the code has "continue"
ReturnNone(r) == IF r.rejected THEN [r EXCEPT !.kind = "return"] ELSE r

\* the iteration with "return None" in place of its two "continue"
TryFormat_return_none(s, fmt, now_year) ==
  ReturnNone(OrElse(Candidate(strptime(s_clean(s), fmt), now_year), Candidate(strptime(s, fmt), now_year)))

\* One iteration of the loop over formats: "return" with a date, or "continue".
\* rejected: a parsed candidate was dropped for its year. raised: an exception
\* left the iteration; both strptime calls sit in "except ValueError".
TryFormat(s, fmt, now_year) ==
  OrElse(Candidate(strptime(s_clean(s), fmt), now_year), Candidate(strptime(s, fmt), now_year))

\* clean_s of the verbose extractor
clean_s(s) ==
  replace(replace(replace(replace(
    SubOrdinalFrom(lower(s), 1, {<<"s", "t">>, <<"n", "d">>, <<"r", "d">>, <<"t", "h">>}),
    <<"d", "a", "y", " ", "o", "f">>, <<>>), <<"o", "n", " ", "t", "h", "i", "s">>, <<>>), <<",">>, <<" ">>), <<" ", " ">>, <<" ">>)

\* \b at position i of s (between s[i-1] and s[i])
WordBoundary(s, i) ==
  (i >= 2 /\ i - 1 <= Len(s) /\ IsWord(s[i - 1])) # (i >= 1 /\ i <= Len(s) /\ IsWord(s[i]))

\* re.search(r"\b(20\d{2})\b", s): the positions where it matches
YearMatches(s) ==
  {i \in 1..Len(s) : /\ MatchAt(s, i, <<"2", "0">>) /\ AllDigits(s, i, 4)
                     /\ WordBoundary(s, i) /\ WordBoundary(s, i + 4)}

\* the length [1-9]|[12]\d|3[01] followed by \b matches at position i, 0 if none
DayLenAt(s, i) ==
  IF AllDigits(s, i, 1) /\ s[i] # "0" /\ WordBoundary(s, i + 1) THEN 1
  ELSE IF AllDigits(s, i, 2) /\ s[i] \in {"1", "2"} /\ WordBoundary(s, i + 2) THEN 2
  ELSE IF AllDigits(s, i, 2) /\ s[i] = "3" /\ s[i + 1] \in {"0", "1"} /\ WordBoundary(s, i + 2) THEN 2
  ELSE 0

\* re.search(r"\b([1-9]|[12]\d|3[01])\b", s): the positions where it matches
DayMatches(s) == {i \in 1..Len(s) : WordBoundary(s, i) /\ DayLenAt(s, i) > 0}

\* the entries of months whose name occurs in s
MonthsFound(s) == {k \in DOMAIN months : Contains(s, months[k].name)}

Least(S) == CHOOSE x \in S : \A y \in S : x <= y

\* year, month and day as the verbose extractor finds them in clean_s; found
\* is "year and month and day"
YearAt(c, i) == ToInt(SubSeq(c, i, i + 3))
DayAt(c, i) == ToInt(SubSeq(c, i, i + DayLenAt(c, i) - 1))
PartsOf(c, ys, ms, ds) ==
  IF ys = {} \/ ms = {} \/ ds = {}
  THEN [found |-> FALSE, year |-> 0, month |-> 0, day |-> 0]
  ELSE [found |-> TRUE, year |-> YearAt(c, Least(ys)), month |-> months[Least(ms)].val,
        day |-> DayAt(c, Least(ds))]
VerboseParts(c) == PartsOf(c, YearMatches(c), MonthsFound(c), DayMatches(c))

\* The verbose extractor, the try block and its except clause: the date it
\* returns (NoDate for None). rejected: its candidate was dropped for its year.
\* raised: an exception left the block; "except Exception: pass" lets none.
VerboseDate(p, now_year) ==
  IF ~p.found THEN [kind |-> "continue", date |-> NoDate, rejected |-> FALSE, raised |-> FALSE]
  ELSE Candidate(datetime(p.year, p.month, p.day), now_year)
VerboseExtract(s, now_year) == VerboseDate(VerboseParts(clean_s(s)), now_year)

\* the for loop over formats from index k on: the date returned, or NoDate
\* when the loop ends without a return
RECURSIVE FormatsLoop(_, _, _)
AfterFormat(r, s, k, now_year) == IF r.kind = "return" THEN r.date ELSE FormatsLoop(s, k + 1, now_year)
FormatsLoop(s, k, now_year) ==
  IF k > Len(formats) THEN NoDate
  ELSE AfterFormat(TryFormat(s, formats[k], now_year), s, k, now_year)

\* the body of parse_date from the loop on, for s = date_str.strip()
DateOrVerbose(d, s, now_year) == IF d # NoDate THEN d ELSE VerboseExtract(s, now_year).date
ParseStripped(s, now_year) == DateOrVerbose(FormatsLoop(s, 1, now_year), s, now_year)

\* parse_date(date_str): the date, NoDate for None, or AttributeError when
\* the exception of date_str.strip() leaves the function
parse_date(date_str, now_year) ==
  IF date_str = None \/ date_str = <<>> THEN NoDate
  ELSE IF date_str = Number THEN AttributeError
  ELSE ParseStripped(strip(date_str), now_year)

---------------------------------------------------------------------------
\* District canonicalizer (database.py, normalize_district)

\* the if-chain of normalize_district as its ordered rule table: the
\* substrings tested by one if statement and the value that statement returns
DistrictRules == <<
  [subs |-> {<<"r", "a", "n", "g", "a">>, <<"r", ".", "r">>, <<"r", "r">>, <<"r", " ", "r">>, <<"r", ".", " ", "r">>, <<"c", "y", "b", "e", "r", "a", "b", "a", "d">>, <<"r", "a", "i", "d", "u", "r", "g", "a", "m">>,
             <<"m", "a", "h", "e", "s", "h", "w", "a", "r">>, <<"l", ".", "b">>, <<"r", "a", "j", "e", "n", "d", "r", "a", "n", "a", "g", "a", "r">>, <<"i", "b", "r", "a", "h", "i", "m", "p", "a", "t", "n", "a", "m">>, <<"a", "l", "k", "a", "p", "o", "o", "r">>,
             <<"s", "e", "r", "i", "l", "i", "n", "g", "a", "m", "p", "a", "l", "l", "y">>},
   name |-> <<"R", "a", "n", "g", "a", " ", "R", "e", "d", "d", "y">>],
  [subs |-> {<<"l", "u", "c", "k", "n", "o", "w">>}, name |-> None],
  [subs |-> {<<"n", "a", "l", "g", "o", "n", "d", "a">>, <<"m", "i", "r", "y", "a", "l", "a", "g", "u", "d", "a">>, <<"y", "a", "d", "a", "d", "r", "i">>, <<"b", "h", "o", "n", "g", "i", "r">>}, name |-> <<"N", "a", "l", "g", "o", "n", "d", "a">>],
  [subs |-> {<<"m", "a", "h", "a", "b", "u", "b", "n", "a", "g", "a", "r">>, <<"n", "a", "g", "a", "r", "k", "u", "r", "n", "o", "o", "l">>, <<"w", "a", "n", "a", "p", "a", "r", "t", "h", "y">>, <<"j", "o", "g", "u", "l", "a", "m", "b", "a">>, <<"g", "a", "d", "w", "a", "l">>},
   name |-> <<"M", "a", "h", "a", "b", "u", "b", "n", "a", "g", "a", "r">>],
  [subs |-> {<<"n", "i", "z", "a", "m", "a", "b", "a", "d">>, <<"p", "a", "l", "i">>, <<"r", "a", "m", "a", "r", "e", "d", "d", "y">>, <<"d", "i", "c", "h", "p", "a", "l", "l", "y">>, <<"k", "a", "m", "a", "r", "e", "d", "d", "y">>, <<"y", "e", "l", "l", "a", "r", "e", "d", "d", "y">>},
   name |-> <<"N", "i", "z", "a", "m", "a", "b", "a", "d">>],
  [subs |-> {<<"a", "d", "i", "l", "a", "b", "a", "d">>}, name |-> <<"A", "d", "i", "l", "a", "b", "a", "d">>],
  [subs |-> {<<"k", "a", "r", "i", "m", "n", "a", "g", "a", "r">>}, name |-> <<"K", "a", "r", "i", "m", "n", "a", "g", "a", "r">>],
  [subs |-> {<<"k", "h", "a", "m", "m", "a", "m">>, <<"b", "h", "a", "d", "r", "a", "d", "r", "i">>}, name |-> <<"K", "h", "a", "m", "m", "a", "m">>],
  [subs |-> {<<"w", "a", "r", "a", "n", "g", "a", "l">>, <<"h", "a", "n", "a", "m", "k", "o", "n", "d", "a">>}, name |-> <<"W", "a", "r", "a", "n", "g", "a", "l">>],
  [subs |-> {<<"s", "a", "n", "g", "a", "r", "e", "d", "d", "y">>}, name |-> <<"S", "a", "n", "g", "a", "r", "e", "d", "d", "y">>],
  [subs |-> {<<"s", "i", "d", "d", "i", "p", "e", "t">>}, name |-> <<"S", "i", "d", "d", "i", "p", "e", "t">>],
  [subs |-> {<<"m", "e", "d", "a", "k">>}, name |-> <<"M", "e", "d", "a", "k">>],
  [subs |-> {<<"h", "y", "d", "e", "r", "a", "b", "a", "d">>, <<"s", "e", "c", "u", "n", "d", "e", "r", "a", "b", "a", "d">>}, name |-> <<"H", "y", "d", "e", "r", "a", "b", "a", "d">>],
  [subs |-> {<<"m", "e", "d", "c", "h", "a", "l">>, <<"m", "a", "l", "k", "a", "j", "g", "i", "r", "i">>, <<"k", "u", "k", "a", "t", "p", "a", "l", "l", "y">>}, name |-> <<"M", "e", "d", "c", "h", "a", "l", "-", "M", "a", "l", "k", "a", "j", "g", "i", "r", "i">>],
  [subs |-> {<<"v", "i", "k", "a", "r", "a", "b", "a", "d">>}, name |-> <<"V", "i", "k", "a", "r", "a", "b", "a", "d">>] >>

\* the placeholder texts that mean "no district"
DistrictNoise == {<<"n", "o", "t", " ", "m", "e", "n", "t", "i", "o", "n", "e", "d">>, <<"n", "o", "t", " ", "s", "p", "e", "c", "i", "f", "i", "e", "d">>, <<"u", "n", "k", "n", "o", "w", "n">>, <<"[", "]">>, <<"[", "d", "i", "s", "t", "r", "i", "c", "t", "]">>,
                  <<"n", "o", "t", " ", "p", "r", "o", "v", "i", "d", "e", "d">>, <<"n", "o", "t", " ", "s", "p", "e", "c", "i", "f", "i", "e", "d", " ", "i", "n", " ", "t", "h", "e", " ", "p", "r", "o", "v", "i", "d", "e", "d", " ", "t", "e", "x", "t">>}

\* the rules whose if condition holds of the lower-cased text d
RulesHit(d) == {i \in DOMAIN DistrictRules : \E x \in DistrictRules[i].subs : Contains(d, x)}

\* the cleaning step: "district", "dist" and "." removed, then stripped
CleanDistrict(d) == strip(replace(replace(replace(d, <<"d", "i", "s", "t", "r", "i", "c", "t">>, <<>>), <<"d", "i", "s", "t">>, <<>>), <<".">>, <<>>))

\* what follows the rule chain: the "r r" special case, the noise list, title case
DistrictFromClean(clean) ==
  IF clean = <<"r", " ", "r">> THEN <<"R", "a", "n", "g", "a", " ", "R", "e", "d", "d", "y">>
  ELSE IF clean = <<>> \/ clean \in DistrictNoise THEN <<"U", "n", "k", "n", "o", "w", "n">>
  ELSE title(clean)

\* the last if statement whose condition holds, where the chain takes the first
LastRule(hit) == CHOOSE i \in hit : \A j \in hit : i >= j

\* the first if statement of the chain whose condition holds
FirstRule(hit) == CHOOSE i \in hit : \A j \in hit : i <= j

\* the text stripped and its letter case kept
strip_only(s) == strip(s)

\* district_name.strip().lower()
lower_strip(s) == lower(strip(s))

\* the rule chain over the lower-cased text d, then what follows it
DistrictOf(d, hit) ==
  IF hit # {} THEN DistrictRules[FirstRule(hit)].name
  ELSE DistrictFromClean(CleanDistrict(d))
NormalizeLowered(d) == DistrictOf(d, RulesHit(d))

normalize_district(district_name) ==
  IF district_name = None \/ district_name = <<>> THEN <<"U", "n", "k", "n", "o", "w", "n">>
  ELSE NormalizeLowered(lower_strip(district_name))

---------------------------------------------------------------------------
\* Case ledger (database.py load_from_json, load_initial_data;
\* migrate_districts.py). A row of the cases table is
\* [id, corno, district, date, filing_date]; an item of an export is
\* [corno, district, date], each a str or None.

\* clean_text(text) for a str, a number or None
clean_text(text) ==
  IF text = None \/ text = <<>> THEN <<>>
  ELSE IF text = Number THEN <<"2", "0", "2", "4", "0", "1", "0", "1">>
  ELSE strip(text)

\* corno.startswith("[") and corno.endswith("]") of a non-empty corno
IsPlaceholderCorno(corno) == corno # <<>> /\ startswith(corno, <<"[">>) /\ endswith(corno, <<"]">>)

\* the next AUTOINCREMENT id
NextId(table) == Len(table) + 1

\* The loop of load_from_json over items from index k on, inside one
\* transaction: the table after the inserts and the count so far. raised: an
\* exception left the loop at an item.
RECURSIVE load_items(_, _, _, _, _)
load_item(item, corno, filing_date, district, items, k, table, count, now_year) ==
  IF IsPlaceholderCorno(corno) THEN load_items(items, k + 1, table, count, now_year)
  ELSE IF filing_date = AttributeError THEN [cases |-> table, count |-> count, raised |-> TRUE]
  ELSE IF district = None THEN load_items(items, k + 1, table, count, now_year)
  ELSE load_items(items, k + 1,
                  Append(table, [id |-> NextId(table), corno |-> corno,
                                 district |-> district, date |-> clean_text(item.date),
                                 filing_date |-> filing_date]),
                  count + 1, now_year)
load_items(items, k, table, count, now_year) ==
  IF k > Len(items) THEN [cases |-> table, count |-> count, raised |-> FALSE]
  ELSE load_item(items[k], clean_text(items[k].corno), parse_date(items[k].date, now_year),
                 normalize_district(items[k].district), items, k, table, count, now_year)

\* load_from_json(data): "except Exception: conn.rollback(); raise e" leaves
\* the table as it was
\* the reading without the rollback: the rows inserted before the exception stay
NotRolledBack(r, table) == r
RolledBack(r, table) == IF r.raised THEN [cases |-> table, count |-> 0, raised |-> TRUE] ELSE r
load_from_json(data, table, now_year) == RolledBack(load_items(data, 1, table, 0, now_year), table)

\* load_initial_data: the items of cases.json are stored as they are, the
\* filing date parsed with "%Y-%m-%d" only
RECURSIVE load_initial_data(_, _, _)
load_initial_data(items, k, table) ==
  IF k > Len(items) THEN table
  ELSE LET item == items[k]
           parsed == IF item.date \in {None, Number} THEN ValueError ELSE strptime(item.date, formats[1])
       IN load_initial_data(items, k + 1,
            Append(table, [id |-> NextId(table), corno |-> item.corno,
                           district |-> item.district,
                           date |-> IF item.date = Number THEN clean_text(item.date) ELSE item.date,
                           filing_date |-> IF parsed = ValueError THEN NoDate ELSE parsed]))

\* migrate_districts: every row's district is normalized again; the rows it
\* had to update are counted
migrate_districts(table) ==
  [cases |-> [i \in 1..Len(table) |-> [table[i] EXCEPT !.district = normalize_district(table[i].district)]],
   updated |-> Cardinality({i \in 1..Len(table) : normalize_district(table[i].district) # table[i].district})]

---------------------------------------------------------------------------
\* Document loader (main.py load_analysis_list, load_json_analyses,
\* load_analysis_detail, load_json_analysis_detail). A file is
\* [dir, name, body]; body tells what reading it gives:
\*   "text"            a markdown report
\*   "unreadable"      open, read or json.load raises
\*   "object"          a JSON object whose "sections" is an object of objects
\*   "section_text"    a JSON object one of whose sections is not an object
\*   "sections_array"  a JSON object whose "sections" is not an object
\*   "array"           JSON that parses but is not an object

ANALYSIS_DIR == "analysis_documents"
NPA_ANALYSIS_DIR == "npa_analysis_documents"

\* the characters of file names in code point order, for sorted()
CodeOrder == <<"-", ".", "/", "0", "1", "2", "3", "4", "5", "6", "7", "8", "9", ":", "A", "B", "C", "D", "E", "F", "G", "H", "I", "J", "K", "L", "M", "N", "O", "P", "Q", "R", "S", "T", "U", "V", "W", "X", "Y", "Z", "[", "]", "_", "a", "b", "c", "d", "e", "f", "g", "h", "i", "j", "k", "l", "m", "n", "o", "p", "q", "r", "s", "t", "u", "v", "w", "x", "y", "z">>
CodePoint == [c \in {CodeOrder[i] : i \in DOMAIN CodeOrder} |-> CHOOSE i \in DOMAIN CodeOrder : CodeOrder[i] = c]

\* a < b for str
TextLess(a, b) ==
  \E k \in 1..(Len(b)) :
    /\ \A j \in 1..(k - 1) : j <= Len(a) /\ a[j] = b[j]
    /\ (k > Len(a) \/ (k - 1 < Len(a) /\ CodePoint[a[k]] < CodePoint[b[k]]))

\* sorted(S) for a set of files of one directory, by name
RECURSIVE sorted(_)
sorted(S) ==
  IF S = {} THEN <<>>
  ELSE LET first == CHOOSE f \in S : \A g \in S \ {f} : TextLess(f.name, g.name)
       IN <<first>> \o sorted(S \ {first})

\* glob.glob(os.path.join(directory, "*" + suffix)): a leading "*" does not
\* match a name that starts with "."
glob(fs, directory, suffix) ==
  {f \in fs : f.dir = directory /\ endswith(f.name, suffix) /\ ~startswith(f.name, <<".">>)}

\* os.path.splitext(fname)[0]: the name up to its last dot, leading dots aside
splitext(fname) ==
  LET dots == {i \in 1..Len(fname) : fname[i] = "." /\ \E j \in 1..(i - 1) : fname[j] # "."}
  IN IF dots = {} THEN fname
     ELSE SubSeq(fname, 1, (CHOOSE i \in dots : \A j \in dots : j <= i) - 1)

\* data.get(...) or sections.get(...) raises AttributeError on these bodies
NotAnObject(body) == body \in {"array", "sections_array"}

\* The loop of load_json_analyses over the sorted files from index k on.
\* raised: an exception left the function.
RECURSIVE json_loop(_, _, _, _, _)
json_loop(json_files, k, source_label, slug_prefix, results) ==
  IF k > Len(json_files) THEN [raised |-> FALSE, results |-> results]
  ELSE LET f == json_files[k]
       IN IF f.body = "unreadable"
          THEN json_loop(json_files, k + 1, source_label, slug_prefix, results)
          ELSE IF NotAnObject(f.body) THEN [raised |-> TRUE, results |-> <<>>]
          ELSE json_loop(json_files, k + 1, source_label, slug_prefix,
                 Append(results, [slug |-> slug_prefix \o <<"_">> \o splitext(f.name),
                                  filename |-> f.name, source |-> source_label,
                                  path |-> [dir |-> f.dir, name |-> f.name]]))

load_json_analyses(fs, directory, source_label, slug_prefix) ==
  json_loop(sorted(glob(fs, directory, <<".", "j", "s", "o", "n">>)), 1, source_label, slug_prefix, <<>>)

\* the loop of load_analysis_list over the sorted markdown files
RECURSIVE md_loop(_, _, _)
md_loop(md_files, k, analyses) ==
  IF k > Len(md_files) THEN analyses
  ELSE LET f == md_files[k]
       IN IF f.body = "unreadable" THEN md_loop(md_files, k + 1, analyses)
          ELSE md_loop(md_files, k + 1,
                 Append(analyses, [slug |-> replace(f.name, <<"_", "a", "n", "a", "l", "y", "s", "i", "s", ".", "m", "d">>, <<>>),
                                   filename |-> f.name, source |-> "Standard",
                                   path |-> [dir |-> f.dir, name |-> f.name]]))

\* load_analysis_list(): raised, or the analyses and their total
load_analysis_list(fs) ==
  LET md == md_loop(sorted(glob(fs, ANALYSIS_DIR, <<"_", "a", "n", "a", "l", "y", "s", "i", "s", ".", "m", "d">>)), 1, <<>>)
      std_json == load_json_analyses(fs, ANALYSIS_DIR, "Standard", <<"s", "t", "d">>)
      npa_json == load_json_analyses(fs, NPA_ANALYSIS_DIR, "NPA", <<"n", "p", "a">>)
  IN IF std_json.raised \/ npa_json.raised
     THEN [raised |-> TRUE, analyses |-> <<>>, total |-> 0]
     ELSE [raised |-> FALSE,
           analyses |-> md \o std_json.results \o npa_json.results,
           total |-> Len(md \o std_json.results \o npa_json.results)]

\* the file at a path, or none
FilesAt(fs, directory, name) == {f \in fs : f.dir = directory /\ f.name = name}

\* load_json_analysis_detail(fpath, slug): "record", "not_found" (None) or "raised"
load_json_analysis_detail(fs, directory, name, slug) ==
  LET at == FilesAt(fs, directory, name)
      path == [dir |-> directory, name |-> name]
  IN IF at = {} THEN [outcome |-> "not_found", slug |-> slug, path |-> path]
     ELSE LET f == CHOOSE f \in at : TRUE
          IN IF f.body = "unreadable" THEN [outcome |-> "not_found", slug |-> slug, path |-> path]
             ELSE IF NotAnObject(f.body) THEN [outcome |-> "raised", slug |-> slug, path |-> path]
             ELSE [outcome |-> "record", slug |-> slug, path |-> path]

\* load_analysis_detail(slug); path is the backing file the slug resolves to
load_analysis_detail(fs, slug) ==
  IF startswith(slug, <<"n", "p", "a", "_">>)
  THEN load_json_analysis_detail(fs, NPA_ANALYSIS_DIR, SubSeq(slug, 5, Len(slug)) \o <<".", "j", "s", "o", "n">>, slug)
  ELSE IF startswith(slug, <<"s", "t", "d", "_">>)
  THEN load_json_analysis_detail(fs, ANALYSIS_DIR, SubSeq(slug, 5, Len(slug)) \o <<".", "j", "s", "o", "n">>, slug)
  ELSE LET name == slug \o <<"_", "a", "n", "a", "l", "y", "s", "i", "s", ".", "m", "d">>
           at == FilesAt(fs, ANALYSIS_DIR, name)
           path == [dir |-> ANALYSIS_DIR, name |-> name]
       IN IF at = {} THEN [outcome |-> "not_found", slug |-> slug, path |-> path]
          ELSE IF (CHOOSE f \in at : TRUE).body = "unreadable"
          THEN [outcome |-> "raised", slug |-> slug, path |-> path]
          ELSE [outcome |-> "record", slug |-> slug, path |-> path]

---------------------------------------------------------------------------
\* Lines of a text (str.split on one character and str.join)

\* the least element of a non-empty set of positions
First(S) == CHOOSE x \in S : \A y \in S : x <= y
\* s.split(c): the pieces of s between the occurrences of the character c
RECURSIVE SplitFrom(_, _, _)
SplitAt(s, c, i, found) ==
  IF found = {} THEN <<SubSeq(s, i, Len(s))>>
  ELSE <<SubSeq(s, i, First(found) - 1)>> \o SplitFrom(s, c, First(found) + 1)
SplitFrom(s, c, i) == SplitAt(s, c, i, {j \in i..Len(s) : s[j] = c})
split(s, c) == SplitFrom(s, c, 1)
\* sep.join(frags)
RECURSIVE join(_, _)
join(sep, frags) ==
  IF frags = <<>> THEN <<>>
  ELSE IF Len(frags) = 1 THEN frags[1]
  ELSE frags[1] \o sep \o join(sep, Tail(frags))
---------------------------------------------------------------------------
\* Severity score (main.py: parse_markdown_sections, and the severity code of
\* load_analysis_list, load_json_analyses, load_analysis_detail and
\* load_json_analysis_detail). A score value is [t, v]: t = "none" for None,
\* "int" for an int v, "str" for a JSON value that is no number.

NoScore == [t |-> "none", v |-> 0]
IntScore(n) == [t |-> "int", v |-> n]
StrScore == [t |-> "str", v |-> 0]
\* "not severity_score"
Falsy(score) == score.t = "none" \/ (score.t = "int" /\ score.v = 0)

\* the end of the run of \s, or of \d, that starts at i: the first position
\* from i on whose character is outside the class
RECURSIVE SkipSpace(_, _)
SkipSpace(s, i) == IF i <= Len(s) /\ IsSpace(s[i]) THEN SkipSpace(s, i + 1) ELSE i
RECURSIVE SkipDigits(_, _)
SkipDigits(s, i) == IF i <= Len(s) /\ IsDigit(s[i]) THEN SkipDigits(s, i + 1) ELSE i
\* int(group) of the digits \d+ matches at i
DigitsAt(s, i) == ToInt(SubSeq(s, i, SkipDigits(s, i) - 1))
HasDigitAt(s, i) == i <= Len(s) /\ IsDigit(s[i])
\* the position after an optional "**" at i
SkipBold(s, i) == IF MatchAt(s, i, <<"*", "*">>) THEN i + 2 ELSE i

\* \n\s*\*\*Score:\s*(\d+) matches at j (IGNORECASE; low is the lower-cased s)
BoldScoreLineAt(s, low, j) ==
  /\ j <= Len(s) /\ s[j] = "\n"
  /\ MatchAt(low, SkipSpace(s, j + 1), <<"*", "*", "s", "c", "o", "r", "e", ":">>)
  /\ HasDigitAt(s, SkipSpace(s, SkipSpace(s, j + 1) + 8))
BoldScoreAt(s, j) == DigitsAt(s, SkipSpace(s, SkipSpace(s, j + 1) + 8))

\* re.search(r"Overall Lapse Severity Score.*?\n\s*\*\*Score:\s*(\d+)", content,
\* IGNORECASE | DOTALL): the positions of the heading, and the positions of the
\* "\n" a match can go through after the first heading
OverallHeadings(low) == {i \in 1..Len(low) : MatchAt(low, i, <<"o", "v", "e", "r", "a", "l", "l", " ", "l", "a", "p", "s", "e", " ", "s", "e", "v", "e", "r", "i", "t", "y", " ", "s", "c", "o", "r", "e">>)}
OverallLines(s, low, heads) ==
  IF heads = {} THEN {}
  ELSE {j \in (First(heads) + 28)..Len(s) : BoldScoreLineAt(s, low, j)}
overall_match(s) == OverallLines(s, lower(s), OverallHeadings(lower(s)))

\* re.search(r"Lapse Severity Score:\s*(?:\*\*)?(\d+)", content, IGNORECASE):
\* the positions where it matches
LapseAt(s, low, i) ==
  /\ MatchAt(low, i, <<"l", "a", "p", "s", "e", " ", "s", "e", "v", "e", "r", "i", "t", "y", " ", "s", "c", "o", "r", "e", ":">>)
  /\ HasDigitAt(s, SkipBold(s, SkipSpace(s, i + 21)))
LapseScoreAt(s, i) == DigitsAt(s, SkipBold(s, SkipSpace(s, i + 21)))
LapseMatches(s, low) == {i \in 1..Len(s) : LapseAt(s, low, i)}
lapse_match(s) == LapseMatches(s, lower(s))

\* Score:\s*(?:\*\*)?(\d+) matches at m
ScoreAt(s, low, m) ==
  /\ MatchAt(low, m, <<"s", "c", "o", "r", "e", ":">>)
  /\ HasDigitAt(s, SkipBold(s, SkipSpace(s, m + 6)))
ScoreValueAt(s, m) == DigitsAt(s, SkipBold(s, SkipSpace(s, m + 6)))
ScoreEndAt(s, m) == SkipDigits(s, SkipBold(s, SkipSpace(s, m + 6)))
\* [^\n]*?Score:... from position a on: the positions of "Score:" a match
\* that starts its line part at a can take
ScoresInLine(s, low, a) ==
  {m \in a..Len(s) : ScoreAt(s, low, m) /\ \A k \in a..(m - 1) : s[k] # "\n"}
\* (?:^|\n) at position st, for a scan that began at the start of the text or
\* later: where the line part begins, 0 if the anchor does not match
AnchorAt(s, st) ==
  IF st <= Len(s) /\ s[st] = "\n" THEN st + 1 ELSE IF st = 1 THEN 1 ELSE 0
\* the anchors from p on at which the whole pattern matches. At position 1 the
\* alternative ^ is tried before \n.
ScoreStarts(s, low, p) ==
  {st \in p..Len(s) : \/ (st = 1 /\ ScoresInLine(s, low, 1) # {})
                      \/ (AnchorAt(s, st) = st + 1 /\ ScoresInLine(s, low, st + 1) # {})}
\* where the line part of the match that starts at st begins
LinePartAt(s, low, st) == IF st = 1 /\ ScoresInLine(s, low, 1) # {} THEN 1 ELSE st + 1
\* re.findall(r"(?:^|\n)[^\n]*?Score:\s*(?:\*\*)?(\d+)", content, IGNORECASE)
\* from position p on: the groups, in order
RECURSIVE FindAllScores(_, _, _)
NextScores(s, low, m) == <<ScoreValueAt(s, m)>> \o FindAllScores(s, low, ScoreEndAt(s, m))
FindAllScores(s, low, p) ==
  IF ScoreStarts(s, low, p) = {} THEN <<>>
  ELSE NextScores(s, low, First(ScoresInLine(s, low, LinePartAt(s, low, First(ScoreStarts(s, low, p))))))
all_scores(s) == FindAllScores(s, lower(s), 1)

\* the fallback on the last "Score: N" line, taken when the code reaches it
LastScoreOr(scores, severity) == IF scores # <<>> THEN IntScore(scores[Len(scores)]) ELSE severity

\* the reading of the severity priority that looks at the audit content only:
\* the overall score, else the first lapse score, else the last score line
ContentOnlyChain(s, overall, lapse, severity, fallback) ==
  IF overall # {} THEN IntScore(BoldScoreAt(s, First(overall)))
  ELSE IF lapse # {} THEN IntScore(LapseScoreAt(s, First(lapse)))
  ELSE LastScoreOr(all_scores(s), severity)
\* the chain over the audit content, given what the two searches found;
\* fallback tells whether the embedded value lets the last-line fallback run
SeverityChain(s, overall, lapse, severity, fallback) ==
  IF overall # {} THEN IntScore(BoldScoreAt(s, First(overall)))
  ELSE IF lapse # {} THEN IntScore(LapseScoreAt(s, First(lapse)))
  ELSE IF fallback THEN LastScoreOr(all_scores(s), severity)
  ELSE severity

\* the list views: "elif severity is None"
severity_list(audit_content, severity) ==
  IF audit_content = <<>> THEN severity
  ELSE SeverityChain(audit_content, overall_match(audit_content), lapse_match(audit_content),
                     severity, severity.t = "none")

\* the detail views: "elif not severity_score"
severity_detail(audit_content, severity_score) ==
  IF audit_content = <<>> THEN severity_score
  ELSE SeverityChain(audit_content, overall_match(audit_content), lapse_match(audit_content),
                     severity_score, Falsy(severity_score))

\* parse_markdown_sections on the section "Investigation Quality Audit", from
\* the stripped section content on.
\* [a-zA-Z\s]* from i on: the first position outside the class
RECURSIVE SkipLabel(_, _)
SkipLabel(s, i) ==
  IF i <= Len(s) /\ (IsAlpha(s[i]) \/ IsSpace(s[i])) THEN SkipLabel(s, i + 1) ELSE i
\* .*?\*\* from e on: a "**" later on the same line
BoldClosesAfter(s, e) ==
  \E p \in e..Len(s) : MatchAt(s, p, <<"*", "*">>) /\ \A k \in e..(p - 1) : s[k] # "\n"
\* Score:\s*(\d+)(?:/10)?.*?\*\* with its colon at c, the label having begun at k
LabelledScoreAt(s, low, k, c) ==
  /\ c - 5 >= k /\ c <= Len(s) /\ s[c] = ":"
  /\ SubSeq(low, c - 5, c - 1) = <<"s", "c", "o", "r", "e">>
  /\ HasDigitAt(s, SkipSpace(s, c + 1))
  /\ BoldClosesAfter(s, SkipDigits(s, SkipSpace(s, c + 1)))
\* >\s*\*\*[a-zA-Z\s]*Score:... matches at i
QuoteScoreAt(s, low, i) ==
  /\ s[i] = ">"
  /\ MatchAt(s, SkipSpace(s, i + 1), <<"*", "*">>)
  /\ LabelledScoreAt(s, low, SkipSpace(s, i + 1) + 2, SkipLabel(s, SkipSpace(s, i + 1) + 2))
QuoteScoreValue(s, i) == DigitsAt(s, SkipSpace(s, SkipLabel(s, SkipSpace(s, i + 1) + 2) + 1))
QuoteScores(s, low) == {i \in 1..Len(s) : QuoteScoreAt(s, low, i)}
score_match(s) == QuoteScores(s, lower(s))
\* re.sub(r"^>.*$", "", content, flags=re.MULTILINE): a line that begins with
\* ">" becomes an empty line
BlankQuote(line) == IF startswith(line, <<">">>) THEN <<>> ELSE line
RECURSIVE BlankQuotes(_)
BlankQuotes(lines) ==
  IF lines = <<>> THEN <<>> ELSE <<BlankQuote(Head(lines))>> \o BlankQuotes(Tail(lines))
strip_quotes(content) == strip(join(<<"\n">>, BlankQuotes(split(content, "\n"))))
\* sec_data of the audit section: severity_score is NoScore when the key is not set
AuditRecord(content, matches) ==
  [content |-> strip_quotes(content),
   severity_score |-> IF matches = {} THEN NoScore
                      ELSE IntScore(QuoteScoreValue(content, First(matches)))]
audit_sec_data(content) == AuditRecord(content, score_match(content))

\* audit.get("severity_score", None) and audit_section.get("severity_score", 0)
GetOr(sec_data, default) ==
  IF sec_data.severity_score.t = "none" THEN default ELSE sec_data.severity_score
\* the severity score of the list view and of the detail view of a document
\* whose audit section record is sec_data
list_severity(sec_data) == severity_list(sec_data.content, GetOr(sec_data, NoScore))
detail_severity(sec_data) == severity_detail(sec_data.content, GetOr(sec_data, IntScore(0)))
---------------------------------------------------------------------------
\* Markdown tables (main.py: strip_code_fences, strip_bold, parse_markdown_table).
\* A dict is the sequence of its [k, v] items in insertion order.

Keys(d) == [i \in 1..Len(d) |-> d[i].k]
HasKey(d, k) == \E i \in 1..Len(d) : d[i].k = k
\* d[k], for a key of d
Get(d, k) == d[CHOOSE i \in 1..Len(d) : d[i].k = k].v
\* d[k] = v
Put(d, k, v) ==
  IF HasKey(d, k) THEN [i \in 1..Len(d) |-> IF d[i].k = k THEN [k |-> k, v |-> v] ELSE d[i]]
  ELSE Append(d, [k |-> k, v |-> v])

\* s.strip(c) for one character c
StripChar(s, c) ==
  IF \A i \in 1..Len(s) : s[i] = c THEN <<>>
  ELSE SubSeq(s, First({i \in 1..Len(s) : s[i] # c}),
              CHOOSE i \in 1..Len(s) : s[i] # c /\ \A j \in (i + 1)..Len(s) : s[j] = c)
\* [x.strip() for x in xs]
StripAll(xs) == [i \in 1..Len(xs) |-> strip(xs[i])]
NotBlank(l) == l # <<>>

\* the lines strip_code_fences removes: a code fence with its optional word,
\* a heading (hashes and a space), a rule of three dashes or more
RECURSIVE SkipChar(_, _, _)
SkipChar(s, c, i) == IF i <= Len(s) /\ s[i] = c THEN SkipChar(s, c, i + 1) ELSE i
\* the grave accent (U+0060), a character no string of this module can hold
Backtick == "<backtick>"
IsFenceLine(l) ==
  /\ MatchAt(strip(l), 1, <<Backtick, Backtick, Backtick>>)
  /\ \A i \in 4..Len(strip(l)) : IsWord(strip(l)[i])
IsHeadingLine(l) ==
  /\ MatchAt(strip(l \o <<"x">>), 1, <<"#">>)
  /\ MatchAt(strip(l \o <<"x">>), SkipChar(strip(l \o <<"x">>), "#", 1), <<" ">>)
IsRuleLine(l) ==
  /\ Len(strip(l)) >= 3
  /\ \A i \in 1..Len(strip(l)) : strip(l)[i] = "-"
BlankRemoved(l) == IF IsFenceLine(l) \/ IsHeadingLine(l) \/ IsRuleLine(l) THEN <<>> ELSE l
strip_code_fences(text) ==
  strip(join(<<"\n">>, [i \in 1..Len(split(text, "\n")) |-> BlankRemoved(split(text, "\n")[i])]))

\* re.sub(r"\*\*([^*]*?)\*\*", r"\1", text)
\* the first "*" from i on, Len(s) + 1 if there is none
RECURSIVE NextStar(_, _)
NextStar(s, i) == IF i <= Len(s) /\ s[i] # "*" THEN NextStar(s, i + 1) ELSE i
RECURSIVE StripBoldFrom(_, _)
StripBoldFrom(s, i) ==
  IF i > Len(s) THEN <<>>
  ELSE IF MatchAt(s, i, <<"*", "*">>) /\ MatchAt(s, NextStar(s, i + 2), <<"*", "*">>)
    THEN SubSeq(s, i + 2, NextStar(s, i + 2) - 1) \o StripBoldFrom(s, NextStar(s, i + 2) + 2)
  ELSE <<s[i]>> \o StripBoldFrom(s, i + 1)
strip_bold(text) == StripBoldFrom(text, 1)

\* the lines of the table: the stripped non-blank lines that start with a pipe
StartsWithPipe(l) == startswith(l, <<"|">>)
table_lines(cleaned) ==
  SelectSeq(SelectSeq(StripAll(split(cleaned, "\n")), NotBlank), StartsWithPipe)
\* [c.strip() for c in line.strip("|").split("|")]
Cells(line) == StripAll(split(StripChar(line, "|"), "|"))
CleanHeader(h) == replace(strip_bold(h), <<":">>, <<>>)
Headers(line) == [i \in 1..Len(Cells(line)) |-> CleanHeader(Cells(line)[i])]
\* the row that stops at the last cell of the line instead of padding it
RECURSIVE RowUnpadded(_, _, _, _)
RowUnpadded(headers, cols, i, row_dict) ==
  IF i > Len(headers) \/ i > Len(cols) THEN row_dict
  ELSE RowUnpadded(headers, cols, i + 1, Put(row_dict, strip(headers[i]), cols[i]))
\* row_dict of one line: the loop over the headers from the i-th on
RECURSIVE RowFrom(_, _, _, _)
RowFrom(headers, cols, i, row_dict) ==
  IF i > Len(headers) THEN row_dict
  ELSE RowFrom(headers, cols, i + 1,
               Put(row_dict, strip(headers[i]), IF i <= Len(cols) THEN cols[i] ELSE <<>>))
Rows(headers, lines) ==
  [n \in 1..(Len(lines) - 2) |-> RowFrom(headers, Cells(lines[n + 2]), 1, <<>>)]
\* the vertical form: one dict from the first two keys of each row
RECURSIVE MappedFrom(_, _, _)
MappedFrom(rows, n, mapped_dict) ==
  IF n > Len(rows) THEN mapped_dict
  ELSE IF Len(rows[n]) >= 2
    THEN MappedFrom(rows, n + 1, Put(mapped_dict, strip(lower(rows[n][1].v)), rows[n][2].v))
  ELSE MappedFrom(rows, n + 1, mapped_dict)
MappedRows(mapped_dict) == IF mapped_dict # <<>> THEN <<mapped_dict>> ELSE <<>>
\* the test of the first header without its lower-casing
IsVerticalCased(headers) ==
  /\ Len(headers) >= 2
  /\ strip(headers[1]) \in {<<"f", "i", "e", "l", "d">>, <<"m", "e", "t", "a", "d", "a", "t", "a", " ", "f", "i", "e", "l", "d">>}
IsVertical(headers) ==
  /\ Len(headers) >= 2
  /\ strip(lower(headers[1])) \in {<<"f", "i", "e", "l", "d">>, <<"m", "e", "t", "a", "d", "a", "t", "a", " ", "f", "i", "e", "l", "d">>}
TableOf(headers, rows) ==
  IF rows = <<>> THEN <<>>
  ELSE IF IsVertical(headers) THEN MappedRows(MappedFrom(rows, 1, <<>>))
  ELSE rows
ParseLines(lines) ==
  IF Len(lines) < 3 THEN <<>>
  ELSE TableOf(Headers(lines[1]), Rows(Headers(lines[1]), lines))
parse_markdown_table(md_table) ==
  IF strip(md_table) = <<>> THEN <<>>
  ELSE IF strip_code_fences(md_table) = <<>> THEN <<>>
  ELSE ParseLines(table_lines(strip_code_fences(md_table)))
---------------------------------------------------------------------------
\* Metadata (main.py: normalize_metadata, fallback_metadata_from_content)

\* [\d-]+ from i on: the first position outside the class
RECURSIVE SkipIsoChars(_, _)
SkipIsoChars(s, i) ==
  IF i <= Len(s) /\ (IsDigit(s[i]) \/ s[i] = "-") THEN SkipIsoChars(s, i + 1) ELSE i
\* the positions of a character from i on
Later(s, c, i) == {j \in i..Len(s) : s[j] = c}
Last(S) == CHOOSE x \in S : \A y \in S : x >= y

\* re.match(r"([\d-]+)\s*\((.+)\)", val): the "(" after the ISO part, and the
\* set of ")" that leave a character for the second group
ParenOpen(val) == SkipSpace(val, SkipIsoChars(val, 1))
ParenCloses(val) ==
  IF SkipIsoChars(val, 1) > 1 /\ ParenOpen(val) <= Len(val) /\ val[ParenOpen(val)] = "("
    THEN Later(val, ")", ParenOpen(val) + 2)
  ELSE {}
ParenIso(val) == SubSeq(val, 1, SkipIsoChars(val, 1) - 1)
ParenNatural(val) == strip(SubSeq(val, ParenOpen(val) + 1, Last(ParenCloses(val)) - 1))
\* re.match(r"(.+?)\s*\+\s*(.+)", val): the ends the first group can have
PlusEnds(val) ==
  {j \in 1..Len(val) : SkipSpace(val, j + 1) < Len(val) /\ val[SkipSpace(val, j + 1)] = "+"}
PlusLeft(val) == strip(SubSeq(val, 1, First(PlusEnds(val))))
PlusRight(val) == strip(SubSeq(val, SkipSpace(val, First(PlusEnds(val)) + 1) + 1, Len(val)))
\* re.search(r"ISO:\s*([\d-]+)", val): the positions where it matches
IsoAt(val, i) ==
  /\ MatchAt(val, i, <<"I", "S", "O", ":">>)
  /\ SkipIsoChars(val, SkipSpace(val, i + 4)) > SkipSpace(val, i + 4)
IsoMatches(val) == {i \in 1..Len(val) : IsoAt(val, i)}
IsoGroupAt(val, i) ==
  SubSeq(val, SkipSpace(val, i + 4), SkipIsoChars(val, SkipSpace(val, i + 4)) - 1)
\* re.search(r"Natural\s*Text:\s*(.+?)(?:<br>|$)", val, re.IGNORECASE): the
\* positions after the colon of a label that leaves a character for the group
NaturalLabelEnd(low, i) ==
  IF MatchAt(low, i, <<"n", "a", "t", "u", "r", "a", "l">>) /\ MatchAt(low, SkipSpace(low, i + 7), <<"t", "e", "x", "t", ":">>)
    THEN SkipSpace(low, i + 7) + 5
  ELSE 0
NaturalMatches(low) ==
  {NaturalLabelEnd(low, i) : i \in {j \in 1..Len(low) : NaturalLabelEnd(low, j) \in 1..Len(low)}}
\* where the group starts, after the label that ends before position e
NaturalStart(val, e) == IF SkipSpace(val, e) <= Len(val) THEN SkipSpace(val, e) ELSE Len(val)
BreaksAfter(low, g) == {j \in (g + 1)..Len(low) : MatchAt(low, j, <<"<", "b", "r", ">">>)}
NaturalUpTo(val, g, breaks) ==
  strip(SubSeq(val, g, IF breaks = {} THEN Len(val) ELSE First(breaks) - 1))
NaturalGroup(val, e) ==
  NaturalUpTo(val, NaturalStart(val, e), BreaksAfter(lower(val), NaturalStart(val, e)))

\* the branch of a key that holds "date": what it adds to out
CombinedDate(out, val) ==
  IF ParenCloses(val) # {}
    THEN Put(Put(out, <<"d", "a", "t", "e", "_", "i", "s", "o">>, strip(ParenIso(val))), <<"d", "a", "t", "e", "_", "n", "a", "t", "u", "r", "a", "l">>, ParenNatural(val))
  ELSE IF PlusEnds(val) # {}
    THEN Put(Put(out, <<"d", "a", "t", "e", "_", "i", "s", "o">>, PlusLeft(val)), <<"d", "a", "t", "e", "_", "n", "a", "t", "u", "r", "a", "l">>, PlusRight(val))
  ELSE Put(out, <<"d", "a", "t", "e", "_", "n", "a", "t", "u", "r", "a", "l">>, val)
WithIso(out, val, iso) ==
  IF iso # {} THEN Put(out, <<"d", "a", "t", "e", "_", "i", "s", "o">>, strip(IsoGroupAt(val, First(iso)))) ELSE out
GenericRest(out, val, iso, nat) ==
  IF nat # {} THEN Put(out, <<"d", "a", "t", "e", "_", "n", "a", "t", "u", "r", "a", "l">>, NaturalGroup(val, First(nat)))
  ELSE IF ParenCloses(val) # {}
    THEN Put(Put(out, <<"d", "a", "t", "e", "_", "i", "s", "o">>, strip(ParenIso(val))), <<"d", "a", "t", "e", "_", "n", "a", "t", "u", "r", "a", "l">>, ParenNatural(val))
  ELSE IF iso = {} THEN Put(out, <<"d", "a", "t", "e", "_", "n", "a", "t", "u", "r", "a", "l">>, val)
  ELSE out
GenericDate(out, val, iso, nat) == GenericRest(WithIso(out, val, iso), val, iso, nat)
DateRule(out, lk, val) ==
  IF Contains(lk, <<"i", "s", "o">>) /\ Contains(lk, <<"n", "a", "t", "u", "r", "a", "l">>) THEN CombinedDate(out, val)
  ELSE IF Contains(lk, <<"n", "a", "t", "u", "r", "a", "l">>) THEN Put(out, <<"d", "a", "t", "e", "_", "n", "a", "t", "u", "r", "a", "l">>, val)
  ELSE IF Contains(lk, <<"i", "s", "o">>) THEN Put(out, <<"d", "a", "t", "e", "_", "i", "s", "o">>, val)
  ELSE GenericDate(out, val, IsoMatches(val), NaturalMatches(lower(val)))

\* the chain with the date rule tested first
RouteKeyDateFirst(out, lk, val_clean) ==
  IF Contains(lk, <<"d", "a", "t", "e">>) THEN DateRule(out, lk, val_clean)
  ELSE IF Contains(lk, <<"f", "u", "l", "l", " ", "c", "o", "u", "r", "t">>) THEN Put(out, <<"c", "o", "u", "r", "t">>, val_clean)
  ELSE IF Contains(lk, <<"p", "r", "e", "s", "i", "d", "i", "n", "g">>) THEN Put(out, <<"j", "u", "d", "g", "e">>, val_clean)
  ELSE IF Contains(lk, <<"c", "a", "s", "e", " ", "n", "u", "m", "b", "e", "r">>) \/ Contains(lk, <<"c", "i", "t", "a", "t", "i", "o", "n">>) THEN Put(out, <<"c", "a", "s", "e", "_", "n", "u", "m", "b", "e", "r">>, val_clean)
  ELSE IF Contains(lk, <<"p", "a", "r", "t", "i", "e", "s">>) THEN Put(out, <<"p", "a", "r", "t", "i", "e", "s">>, val_clean)
  ELSE out
\* the rules in the order of the elif chain; lk is the lower-cased, stripped
\* key without bold markers, val_clean the value without bold markers
RouteKey(out, lk, val_clean) ==
  IF Contains(lk, <<"f", "u", "l", "l", " ", "c", "o", "u", "r", "t">>) THEN Put(out, <<"c", "o", "u", "r", "t">>, val_clean)
  ELSE IF Contains(lk, <<"p", "r", "e", "s", "i", "d", "i", "n", "g">>) THEN Put(out, <<"j", "u", "d", "g", "e">>, val_clean)
  ELSE IF Contains(lk, <<"c", "a", "s", "e", " ", "n", "u", "m", "b", "e", "r">>) \/ Contains(lk, <<"c", "i", "t", "a", "t", "i", "o", "n">>) THEN Put(out, <<"c", "a", "s", "e", "_", "n", "u", "m", "b", "e", "r">>, val_clean)
  ELSE IF Contains(lk, <<"p", "a", "r", "t", "i", "e", "s">>) THEN Put(out, <<"p", "a", "r", "t", "i", "e", "s">>, val_clean)
  ELSE IF Contains(lk, <<"d", "a", "t", "e">>) THEN DateRule(out, lk, val_clean)
  ELSE out
RECURSIVE NormalizeFrom(_, _, _)
NormalizeFrom(raw, i, out) ==
  IF i > Len(raw) THEN out
  ELSE NormalizeFrom(raw, i + 1, RouteKey(out, strip(lower(strip_bold(raw[i].k))), strip_bold(raw[i].v)))
normalize_metadata(raw) == NormalizeFrom(raw, 1, <<>>)

\* fallback_metadata_from_content.
\* The court: (?:heard by the|before the|in the court of|presided over by)\s+
\* (.+?)(?:\s+(?:on|in|at)\s+\d|\.\s), re.IGNORECASE
CourtLeads == <<<<"h", "e", "a", "r", "d", " ", "b", "y", " ", "t", "h", "e">>, <<"b", "e", "f", "o", "r", "e", " ", "t", "h", "e">>, <<"i", "n", " ", "t", "h", "e", " ", "c", "o", "u", "r", "t", " ", "o", "f">>, <<"p", "r", "e", "s", "i", "d", "e", "d", " ", "o", "v", "e", "r", " ", "b", "y">>>>
\* the position after the lead that matches at i, 0 if none does
LeadEnd(low, i) ==
  IF \E n \in 1..Len(CourtLeads) : MatchAt(low, i, CourtLeads[n])
    THEN i + Len(CourtLeads[CHOOSE n \in 1..Len(CourtLeads) : MatchAt(low, i, CourtLeads[n])])
  ELSE 0
SpaceAt(s, i) == i <= Len(s) /\ IsSpace(s[i])
\* \s+(?:on|in|at)\s+\d or \.\s at t
CourtStopAt(s, low, t) ==
  \/ /\ SpaceAt(s, t)
     /\ \E w \in {<<"o", "n">>, <<"i", "n">>, <<"a", "t">>} : MatchAt(low, SkipSpace(s, t), w)
     /\ SpaceAt(s, SkipSpace(s, t) + 2)
     /\ HasDigitAt(s, SkipSpace(s, SkipSpace(s, t) + 2))
  \/ t <= Len(s) /\ s[t] = "." /\ SpaceAt(s, t + 1)
\* the last positions the group (.+?) can have when it starts at g
CourtEnds(s, low, g) ==
  {e \in g..Len(s) : CourtStopAt(s, low, e + 1) /\ \A k \in g..e : s[k] # "\n"}
\* the starts of the group after the white space that begins at w: \s+ takes
\* the longest run that lets the rest match
CourtStarts(s, low, w) ==
  {g \in (w + 1)..SkipSpace(s, w) : CourtEnds(s, low, g) # {}}
CourtAt(s, low, i) == LeadEnd(low, i) > 0 /\ SpaceAt(s, LeadEnd(low, i)) /\ CourtStarts(s, low, LeadEnd(low, i)) # {}
CourtMatches(s, low) == {i \in 1..Len(s) : CourtAt(s, low, i)}
CourtFrom(s, low, g) == SubSeq(s, g, First(CourtEnds(s, low, g)))
CourtGroup(s, low, i) == CourtFrom(s, low, Last(CourtStarts(s, low, LeadEnd(low, i))))
\* s.rstrip(",.")
RECURSIVE rstrip_marks(_)
rstrip_marks(s) ==
  IF s # <<>> /\ s[Len(s)] \in {",", "."} THEN rstrip_marks(SubSeq(s, 1, Len(s) - 1)) ELSE s

\* The case number: ((?:Spl\.)?(?:S\.?C\.?|SC|Cr|CC|Crl\.?M\.?A)[\s.]*No\.?
\* \s*[\d/]+\s*(?:of\s*\d{4})?), re.IGNORECASE
SkipDot(s, i) == IF i <= Len(s) /\ s[i] = "." THEN i + 1 ELSE i
RECURSIVE SkipSpaceDots(_, _)
SkipSpaceDots(s, i) ==
  IF i <= Len(s) /\ (IsSpace(s[i]) \/ s[i] = ".") THEN SkipSpaceDots(s, i + 1) ELSE i
RECURSIVE SkipNumber(_, _)
SkipNumber(s, i) ==
  IF i <= Len(s) /\ (IsDigit(s[i]) \/ s[i] = "/") THEN SkipNumber(s, i + 1) ELSE i
\* the positions after the court code that begins at a
CodeEnds(low, a) ==
  (IF MatchAt(low, a, <<"s", "c">>) \/ MatchAt(low, a, <<"c", "r">>) \/ MatchAt(low, a, <<"c", "c">>) THEN {a + 2} ELSE {})
    \cup (IF MatchAt(low, a, <<"s", ".", "c">>) THEN {a + 3} ELSE {})
    \cup (IF /\ MatchAt(low, a, <<"c", "r", "l">>)
              /\ MatchAt(low, SkipDot(low, a + 3), <<"m">>)
              /\ MatchAt(low, SkipDot(low, SkipDot(low, a + 3) + 1), <<"a">>)
            THEN {SkipDot(low, SkipDot(low, a + 3) + 1) + 1} ELSE {})
\* the positions of the "No" the pattern can reach from i
NoAfter(s, low, a) ==
  {SkipSpaceDots(s, b) : b \in {c \in CodeEnds(low, a) : MatchAt(low, SkipSpaceDots(s, c), <<"n", "o">>)}}
CaseNos(s, low, i) ==
  (IF MatchAt(low, i, <<"s", "p", "l", ".">>) THEN NoAfter(s, low, i + 4) ELSE {}) \cup NoAfter(s, low, i)
\* the number after the "No" at n: where it starts, and where the match ends
NumberStart(s, n) == SkipSpace(s, SkipDot(s, n + 2))
HasNumber(s, n) == SkipNumber(s, NumberStart(s, n)) > NumberStart(s, n)
YearAfter(s, low, d) ==
  IF MatchAt(low, d, <<"o", "f">>) /\ AllDigits(s, SkipSpace(s, d + 2), 4) THEN SkipSpace(s, d + 2) + 4 ELSE d
CaseEnd(s, low, n) == YearAfter(s, low, SkipSpace(s, SkipNumber(s, NumberStart(s, n))))
CaseAt(s, low, i) == \E n \in CaseNos(s, low, i) : HasNumber(s, n)
CaseMatches(s, low) == {i \in 1..Len(s) : CaseAt(s, low, i)}
CaseGroup(s, low, i) ==
  strip(SubSeq(s, i, CaseEnd(s, low, CHOOSE n \in CaseNos(s, low, i) : HasNumber(s, n)) - 1))

\* The date: \*\*([^*]+)\*\*.*?Judgment on the timeline, re.IGNORECASE
JudgmentAfter(low, j) ==
  \E p \in j..Len(low) : MatchAt(low, p, <<"j", "u", "d", "g", "m", "e", "n", "t">>) /\ \A k \in j..(p - 1) : low[k] # "\n"
JudgmentAt(s, low, i) ==
  /\ MatchAt(s, i, <<"*", "*">>)
  /\ NextStar(s, i + 2) > i + 2
  /\ MatchAt(s, NextStar(s, i + 2), <<"*", "*">>)
  /\ JudgmentAfter(low, NextStar(s, i + 2) + 2)
JudgmentMatches(s, low) == {i \in 1..Len(s) : JudgmentAt(s, low, i)}
JudgmentGroup(s, i) == strip(SubSeq(s, i + 2, NextStar(s, i + 2) - 1))

\* The parties: (State\s+of\s+\w+)\s+(?:against|vs\.?|versus)\s+
\* (?:the\s+accused,?\s*(?:identified as\s+)?)?([A-Z][a-zA-Z\s.]+?)(?:,|\.\s|\s+a\s+\d)
RECURSIVE SkipWord(_, _)
SkipWord(s, i) == IF i <= Len(s) /\ IsWord(s[i]) THEN SkipWord(s, i + 1) ELSE i
\* the position after "State of <word>" at i, 0 if it does not match
StateEnd(s, i) ==
  IF /\ MatchAt(s, i, <<"S", "t", "a", "t", "e">>) /\ SpaceAt(s, i + 5)
     /\ MatchAt(s, SkipSpace(s, i + 5), <<"o", "f">>) /\ SpaceAt(s, SkipSpace(s, i + 5) + 2)
     /\ SkipWord(s, SkipSpace(s, SkipSpace(s, i + 5) + 2)) > SkipSpace(s, SkipSpace(s, i + 5) + 2)
    THEN SkipWord(s, SkipSpace(s, SkipSpace(s, i + 5) + 2))
  ELSE 0
\* the position after the verb at d, 0 if there is none
VerbEnd(s, d) ==
  IF MatchAt(s, d, <<"a", "g", "a", "i", "n", "s", "t">>) THEN d + 7
  ELSE IF MatchAt(s, d, <<"v", "s">>) THEN SkipDot(s, d + 2)
  ELSE IF MatchAt(s, d, <<"v", "e", "r", "s", "u", "s">>) THEN d + 6
  ELSE 0
SkipComma(s, i) == IF i <= Len(s) /\ s[i] = "," THEN i + 1 ELSE i
\* the position after the optional "identified as" at t
IdentifiedEnd(s, t) ==
  IF MatchAt(s, t, <<"i", "d", "e", "n", "t", "i", "f", "i", "e", "d", " ", "a", "s">>) /\ SpaceAt(s, t + 13) THEN SkipSpace(s, t + 13) ELSE t
\* where the name starts after the white space that follows the verb, 0 if
\* the optional "the accused" begins and does not match
NameStart(s, n) ==
  IF ~MatchAt(s, n, <<"t", "h", "e">>) THEN n
  ELSE IF SpaceAt(s, n + 3) /\ MatchAt(s, SkipSpace(s, n + 3), <<"a", "c", "c", "u", "s", "e", "d">>)
    THEN IdentifiedEnd(s, SkipSpace(s, SkipComma(s, SkipSpace(s, n + 3) + 7)))
  ELSE 0
\* the start of the name for the statement that ends before c, 0 if none
NameAfter(s, c) ==
  IF c > 0 /\ SpaceAt(s, c) /\ VerbEnd(s, SkipSpace(s, c)) > 0 /\ SpaceAt(s, VerbEnd(s, SkipSpace(s, c)))
    THEN NameStart(s, SkipSpace(s, VerbEnd(s, SkipSpace(s, c))))
  ELSE 0
\* , or \.\s or \s+a\s+\d at t
NameStopAt(s, t) ==
  \/ t <= Len(s) /\ s[t] = ","
  \/ t <= Len(s) /\ s[t] = "." /\ SpaceAt(s, t + 1)
  \/ /\ SpaceAt(s, t)
     /\ MatchAt(s, SkipSpace(s, t), <<"a">>)
     /\ SpaceAt(s, SkipSpace(s, t) + 1)
     /\ HasDigitAt(s, SkipSpace(s, SkipSpace(s, t) + 1))
NameEnds(s, n) ==
  IF n > 0 /\ n <= Len(s) /\ IsUpper(s[n])
    THEN {e \in (n + 1)..Len(s) :
            /\ NameStopAt(s, e + 1)
            /\ \A k \in (n + 1)..e : IsAlpha(s[k]) \/ IsSpace(s[k]) \/ s[k] = "."}
  ELSE {}
PartiesAt(s, i) == NameEnds(s, NameAfter(s, StateEnd(s, i))) # {}
PartiesMatches(s) == {i \in 1..Len(s) : PartiesAt(s, i)}
NameFrom(s, n) == strip(SubSeq(s, n, First(NameEnds(s, n))))
PartiesGroup(s, i) ==
  strip(SubSeq(s, i, StateEnd(s, i) - 1)) \o <<" ", "v", "s", " ">> \o NameFrom(s, NameAfter(s, StateEnd(s, i)))

WithCourt(meta, s, low, found) ==
  IF found = {} THEN meta ELSE Put(meta, <<"c", "o", "u", "r", "t">>, rstrip_marks(strip(CourtGroup(s, low, First(found)))))
WithCase(meta, s, low, found) ==
  IF found = {} THEN meta ELSE Put(meta, <<"c", "a", "s", "e", "_", "n", "u", "m", "b", "e", "r">>, CaseGroup(s, low, First(found)))
WithJudgment(meta, s, found) ==
  IF found = {} THEN meta ELSE Put(meta, <<"d", "a", "t", "e", "_", "n", "a", "t", "u", "r", "a", "l">>, JudgmentGroup(s, First(found)))
WithParties(meta, s, found) ==
  IF found = {} THEN meta ELSE Put(meta, <<"p", "a", "r", "t", "i", "e", "s">>, PartiesGroup(s, First(found)))
FallbackFrom(s, low, t) ==
  WithParties(WithJudgment(WithCase(WithCourt(<<>>, s, low, CourtMatches(s, low)),
                                    s, low, CaseMatches(s, low)),
                           t, JudgmentMatches(t, lower(t))),
              s, PartiesMatches(s))
fallback_metadata_from_content(legal_summary, timeline_content) ==
  IF legal_summary = <<>> THEN <<>>
  ELSE FallbackFrom(legal_summary, lower(legal_summary), timeline_content)

\* the metadata of a document: the table of the section "Metadata Extraction",
\* normalized, and the fallback on the legal summary and the timeline when the
\* normalized dict is empty ("if not meta")
FirstRow(meta_rows) == IF meta_rows # <<>> THEN meta_rows[1] ELSE <<>>
normalized(meta_content) == normalize_metadata(FirstRow(parse_markdown_table(meta_content)))
\* the assembly that lets the fallback fill the fields the table left out
MergedOr(meta, legal_summary, timeline_raw) ==
  meta \o SelectSeq(fallback_metadata_from_content(legal_summary, timeline_raw), LAMBDA item : ~HasKey(meta, item.k))
FallbackOr(meta, legal_summary, timeline_raw) ==
  IF meta = <<>> THEN fallback_metadata_from_content(legal_summary, timeline_raw) ELSE meta
assemble_metadata(doc) == FallbackOr(normalized(doc.meta), doc.legal, doc.timeline)
\* meta.get(key, default)
GetOrDefault(d, k, default) == IF HasKey(d, k) THEN Get(d, k) ELSE default
\* the metadata fields of a list entry
ListFields(meta) ==
  [court |-> GetOrDefault(meta, <<"c", "o", "u", "r", "t">>, <<>>),
   judge |-> GetOrDefault(meta, <<"j", "u", "d", "g", "e">>, <<>>),
   date |-> GetOrDefault(meta, <<"d", "a", "t", "e", "_", "n", "a", "t", "u", "r", "a", "l">>, GetOrDefault(meta, <<"d", "a", "t", "e", "_", "i", "s", "o">>, <<>>)),
   case_number |-> GetOrDefault(meta, <<"c", "a", "s", "e", "_", "n", "u", "m", "b", "e", "r">>, <<>>),
   parties |-> GetOrDefault(meta, <<"p", "a", "r", "t", "i", "e", "s">>, <<>>)]
---------------------------------------------------------------------------
\* Legal summary items (main.py: load_analysis_detail and
\* load_json_analysis_detail, "Legal summary"). The numbered-heading marker is
\* (?:^|\n)(?:#{1,6}\s*)?(?:\*\*)?(\d+\.\s+(?:\*\*)?[^\n*:]+)(?:\*\*)?:?\s*(?=\n|$)

TitleChar(c) == c \notin {"\n", "*", ":"}
RECURSIVE SkipTitle(_, _)
SkipTitle(s, i) == IF i <= Len(s) /\ TitleChar(s[i]) THEN SkipTitle(s, i + 1) ELSE i
SkipColon(s, i) == IF i <= Len(s) /\ s[i] = ":" THEN i + 1 ELSE i
\* (?:#{1,6}\s*)? at a: the position after it, 0 for seven hashes or more
AfterHashes(s, a) ==
  IF SkipChar(s, "#", a) = a THEN a
  ELSE IF SkipChar(s, "#", a) - a <= 6 THEN SkipSpace(s, SkipChar(s, "#", a))
  ELSE 0
\* where the group starts for the anchor that ends before a, 0 if no number
\* with its dot and white space follows
NumberAt(s, g) == HasDigitAt(s, g) /\ MatchAt(s, SkipDigits(s, g), <<".">>) /\ SpaceAt(s, SkipDigits(s, g) + 1)
HeadingStart(s, a) ==
  IF AfterHashes(s, a) > 0 /\ NumberAt(s, SkipBold(s, AfterHashes(s, a)))
    THEN SkipBold(s, AfterHashes(s, a))
  ELSE 0
\* (?:\*\*)?:?\s*(?=\n|$) at p: the end of the match, 0 if it fails. The white
\* space stops before its last line break unless it runs to the end of the text.
WhiteEnd(s, p, q) ==
  IF q > Len(s) THEN q
  ELSE IF Later(SubSeq(s, 1, q - 1), "\n", p) # {} THEN Last(Later(SubSeq(s, 1, q - 1), "\n", p))
  ELSE 0
TailEnd(s, p) == WhiteEnd(s, SkipColon(s, SkipBold(s, p)), SkipSpace(s, SkipColon(s, SkipBold(s, p))))
\* the ends the title run can have, in the order the matcher tries them, for
\* the white space after the dot that begins at d and ends before w: the run
\* after the optional bold marker, else the last blank of the white space
TitleEnds(s, d, w) ==
  (IF SkipBold(s, w) <= Len(s) /\ TitleChar(s[SkipBold(s, w)])
     THEN <<SkipTitle(s, SkipBold(s, w))>> ELSE <<>>)
  \o (IF w - 1 > d /\ s[w - 1] # "\n" THEN <<w>> ELSE <<>>)
GoodEnds(s, ends) == SelectSeq(ends, LAMBDA e : TailEnd(s, e) > 0)
\* the end of the group that starts at g (0 if the marker fails there)
GroupEnd(s, g) ==
  IF GoodEnds(s, TitleEnds(s, SkipDigits(s, g) + 1, SkipSpace(s, SkipDigits(s, g) + 1))) = <<>> THEN 0
  ELSE GoodEnds(s, TitleEnds(s, SkipDigits(s, g) + 1, SkipSpace(s, SkipDigits(s, g) + 1)))[1]
\* the positions after (?:^|\n) at st from which the rest matches, ^ first
MarkerAnchors(s, st) ==
  SelectSeq((IF st = 1 THEN <<1>> ELSE <<>>) \o (IF s[st] = "\n" THEN <<st + 1>> ELSE <<>>),
            LAMBDA a : HeadingStart(s, a) > 0 /\ GroupEnd(s, HeadingStart(s, a)) > 0)
MarkerStarts(s, pos) == {st \in pos..Len(s) : MarkerAnchors(s, st) # <<>>}
\* re.split(pattern, legal_raw) from pos on
RECURSIVE SplitMarkers(_, _)
SplitAtGroup(s, pos, st, g) ==
  <<SubSeq(s, pos, st - 1), SubSeq(s, g, GroupEnd(s, g) - 1)>> \o SplitMarkers(s, TailEnd(s, GroupEnd(s, g)))
SplitAtMarker(s, pos, st) == SplitAtGroup(s, pos, st, HeadingStart(s, MarkerAnchors(s, st)[1]))
SplitMarkers(s, pos) ==
  IF MarkerStarts(s, pos) = {} THEN <<SubSeq(s, pos, Len(s))>>
  ELSE SplitAtMarker(s, pos, First(MarkerStarts(s, pos)))

\* re.search(r"^\s*(?:#{1,6}\s*)?(?:\*\*)?\d+\.\s+", parts[0])
NumberedStart(s) == HeadingStart(s, SkipSpace(s, 1)) > 0
\* re.sub(r"^[\*\#]+|[\*\#]+$", "", t).strip()
IsMark(c) == c \in {"*", "#"}
RECURSIVE DropMarksLeft(_)
DropMarksLeft(t) == IF t # <<>> /\ IsMark(t[1]) THEN DropMarksLeft(Tail(t)) ELSE t
RECURSIVE DropMarksRight(_)
DropMarksRight(t) ==
  IF t # <<>> /\ IsMark(t[Len(t)]) THEN DropMarksRight(SubSeq(t, 1, Len(t) - 1)) ELSE t
DropMarks(t) == strip(DropMarksRight(DropMarksLeft(t)))
\* re.sub(r"^\d+\.\s*", "", t).strip()
DropNumber(t) ==
  IF HasDigitAt(t, 1) /\ MatchAt(t, SkipDigits(t, 1), <<".">>)
    THEN strip(SubSeq(t, SkipSpace(t, SkipDigits(t, 1) + 1), Len(t)))
  ELSE strip(t)
CleanTitle(group) == DropMarks(DropNumber(DropMarks(strip(group))))
\* the loop over the titles and contents of parts, from the i-th part on
RECURSIVE TitledItems(_, _)
TitledItem(current_title, content) ==
  IF current_title # <<>> THEN <<[title |-> current_title, content |-> content]>> ELSE <<>>
TitledItems(parts, i) ==
  IF i > Len(parts) THEN <<>>
  ELSE TitledItem(CleanTitle(parts[i]), IF i + 1 <= Len(parts) THEN strip(parts[i + 1]) ELSE <<>>)
         \o TitledItems(parts, i + 2)
\* the segmentation without the item for the leading text
NoOverview(parts) == <<>>
Overview(parts) ==
  IF strip(parts[1]) # <<>> /\ ~NumberedStart(parts[1])
    THEN <<[title |-> <<"O", "v", "e", "r", "v", "i", "e", "w">>, content |-> strip(parts[1])]>>
  ELSE <<>>
SummaryOr(legal_items, legal_raw) ==
  IF legal_items = <<>> THEN <<[title |-> <<"S", "u", "m", "m", "a", "r", "y">>, content |-> legal_raw]>> ELSE legal_items
ItemsOf(parts, legal_raw) == SummaryOr(Overview(parts) \o TitledItems(parts, 2), legal_raw)
legal_items(legal_raw) ==
  IF legal_raw = <<>> THEN <<>> ELSE ItemsOf(SplitMarkers(legal_raw, 1), legal_raw)
---------------------------------------------------------------------------
\* Timeline entries of a markdown report (main.py: load_analysis_detail,
\* "Timeline"): a walk over the lines of the section content

TimelineTitle == <<"C", "h", "r", "o", "n", "o", "l", "o", "g", "i", "c", "a", "l", " ", "E", "v", "e", "n", "t", " ", "T", "i", "m", "e", "l", "i", "n", "e">>
\* not clean_line or clean_line.replace("*", "") == "Chronological Event Timeline"
SkippedLine(original_line) ==
  strip(original_line) = <<>> \/ replace(strip(original_line), <<"*">>, <<>>) = TimelineTitle
\* original_line.startswith("- ") and "**" in clean_line
StartsEntryAnyBullet(original_line) == startswith(original_line, <<"-", " ">>)
StartsEntry(original_line) ==
  startswith(original_line, <<"-", " ">>) /\ Contains(strip(original_line), <<"*", "*">>)
\* re.match(r"-\s+\*\*([^*]+)\*\*:\s*(.*)", original_line)
LabelStart(original_line) == SkipSpace(original_line, 2) + 2
LabelEnd(original_line) == NextStar(original_line, LabelStart(original_line))
bold_match(original_line) ==
  /\ startswith(original_line, <<"-">>)
  /\ SkipSpace(original_line, 2) > 2
  /\ MatchAt(original_line, SkipSpace(original_line, 2), <<"*", "*">>)
  /\ LabelEnd(original_line) > LabelStart(original_line)
  /\ MatchAt(original_line, LabelEnd(original_line), <<"*", "*", ":">>)
LabelGroup(original_line) ==
  strip(SubSeq(original_line, LabelStart(original_line), LabelEnd(original_line) - 1))
detail_part(original_line) ==
  strip(SubSeq(original_line, LabelEnd(original_line) + 3, Len(original_line)))
\* the label and the first detail lines an entry-starting line gives
StartLabel(original_line) ==
  IF bold_match(original_line) THEN LabelGroup(original_line) ELSE <<>>
StartDetail(original_line) ==
  IF ~bold_match(original_line) THEN <<original_line>>
  ELSE IF detail_part(original_line) # <<>> THEN <<detail_part(original_line)>>
  ELSE <<>>
\* if current_label or current_detail: timeline_items.append(...)
Flush(walk) ==
  IF walk.current_label # <<>> \/ walk.current_detail # <<>>
    THEN Append(walk.timeline_items,
                [label |-> walk.current_label,
                 detail |-> strip(join(<<"\n">>, walk.current_detail))])
  ELSE walk.timeline_items
\* the body of the loop for one line
TimelineStep(walk, original_line) ==
  IF SkippedLine(original_line) THEN walk
  ELSE IF StartsEntry(original_line)
    THEN [timeline_items |-> Flush(walk),
          current_label |-> StartLabel(original_line),
          current_detail |-> StartDetail(original_line)]
  ELSE [walk EXCEPT !.current_detail = Append(@, original_line)]
RECURSIVE TimelineWalk(_, _, _)
TimelineWalk(content_lines, i, walk) ==
  IF i > Len(content_lines) THEN Flush(walk)
  ELSE TimelineWalk(content_lines, i + 1, TimelineStep(walk, content_lines[i]))
timeline_items(timeline_content) ==
  IF timeline_content = <<>> THEN <<>>
  ELSE TimelineWalk(split(strip(timeline_content), "\n"), 1,
                    [timeline_items |-> <<>>, current_label |-> <<>>, current_detail |-> <<>>])
---------------------------------------------------------------------------
\* Audit sub-sections (main.py: load_analysis_detail and
\* load_json_analysis_detail, "Parse audit into sub-sections"): a walk over
\* the stripped lines of the audit content

\* not line or line == "---"
BlankOrRule(line) == line = <<>> \/ line = <<"-", "-", "-">>
\* the score line and the "Observations/Lapses" label
ScoreOrLabel(line) ==
  \/ Contains(lower(line), <<"l", "a", "p", "s", "e", " ", "s", "e", "v", "e", "r", "i", "t", "y", " ", "s", "c", "o", "r", "e">>)
  \/ startswith(lower(line), <<"s", "c", "o", "r", "e", ":">>)
  \/ startswith(lower(line), <<"*", "*", "s", "c", "o", "r", "e", ":">>)
  \/ Contains(line, <<"O", "b", "s", "e", "r", "v", "a", "t", "i", "o", "n", "s", "/", "L", "a", "p", "s", "e", "s">>)

\* re.match(r"^#{2,4}\s+(?:\*\*)?(.*?)(?:\*\*)?:?\s*$", line)
HashesEnd(line) == SkipChar(line, "#", 1)
heading_match(line) ==
  /\ HashesEnd(line) - 1 \in 2..4
  /\ HashesEnd(line) <= Len(line)
  /\ IsSpace(line[HashesEnd(line)])
\* the text after the marks, the white space and the optional bold marker
HeadingText(line) ==
  SubSeq(line, SkipBold(line, SkipSpace(line, HashesEnd(line))), Len(line))
\* what (?:\*\*)?:?\s*$ takes at the end, the lazy group leaving it the most
HeadingTail(text) ==
  IF endswith(text, <<"*", "*", ":">>) THEN 3
  ELSE IF endswith(text, <<"*", "*">>) THEN 2
  ELSE IF endswith(text, <<":">>) THEN 1
  ELSE 0
HeadingGroup(line) ==
  SubSeq(HeadingText(line), 1, Len(HeadingText(line)) - HeadingTail(HeadingText(line)))
\* re.match(r"^\*\*([^*]+)\*\*:?\s*$", line)
AltEnd(line) == NextStar(line, 3)
AltMatches(line) ==
  /\ startswith(line, <<"*", "*">>)
  /\ AltEnd(line) > 3
  /\ MatchAt(line, AltEnd(line), <<"*", "*">>)
  /\ SkipColon(line, AltEnd(line) + 2) = Len(line) + 1
AltGroup(line) == SubSeq(line, 3, AltEnd(line) - 1)
MaxHeadingLen == 60
NotAHeading(line) ==
  \/ Contains(line, <<"S", "c", "o", "r", "e", ":">>)
  \/ Len(line) > MaxHeadingLen
  \/ Contains(line, <<"O", "b", "s", "e", "r", "v", "a", "t", "i", "o", "n", "s">>)
  \/ Contains(line, <<"R", "a", "t", "i", "o", "n", "a", "l", "e">>)
alt_heading_match(line) == AltMatches(line) /\ ~NotAHeading(line)
\* .strip().rstrip(":"), then re.sub(r"^\*\*|\*\*$", "", h).strip()
RECURSIVE rstrip_colons(_)
rstrip_colons(h) ==
  IF h # <<>> /\ h[Len(h)] = ":" THEN rstrip_colons(SubSeq(h, 1, Len(h) - 1)) ELSE h
DropBoldTail(h) == IF endswith(h, <<"*", "*">>) THEN SubSeq(h, 1, Len(h) - 2) ELSE h
DropBoldEnds(h) ==
  IF startswith(h, <<"*", "*">>) THEN DropBoldTail(SubSeq(h, 3, Len(h))) ELSE DropBoldTail(h)
CleanHeading(group) == strip(DropBoldEnds(rstrip_colons(strip(group))))
HeadingOf(line) ==
  CleanHeading(IF heading_match(line) THEN HeadingGroup(line) ELSE AltGroup(line))
IsHeading(line) == heading_match(line) \/ alt_heading_match(line)

\* re.match(r"^(?:-|\*|\d+\.)\s+\*\*([^*]+)\*\*:?\s*(.*)", line)
BulletEnd(line) ==
  IF startswith(line, <<"-">>) \/ startswith(line, <<"*">>) THEN 2
  ELSE IF HasDigitAt(line, 1) /\ MatchAt(line, SkipDigits(line, 1), <<".">>)
    THEN SkipDigits(line, 1) + 1
  ELSE 0
BoldStart(line) == SkipSpace(line, BulletEnd(line))
BoldEnd(line) == NextStar(line, BoldStart(line) + 2)
bullet_bold_match(line) ==
  /\ BulletEnd(line) > 0
  /\ BoldStart(line) > BulletEnd(line)
  /\ MatchAt(line, BoldStart(line), <<"*", "*">>)
  /\ BoldEnd(line) > BoldStart(line) + 2
  /\ MatchAt(line, BoldEnd(line), <<"*", "*">>)
BulletItem(line) ==
  [title |-> strip(SubSeq(line, BoldStart(line) + 2, BoldEnd(line) - 1)),
   detail |-> strip(SubSeq(line, SkipColon(line, BoldEnd(line) + 2), Len(line)))]
\* re.match(r"^(?:\d+\.)\s+(.*)", line) on a line that is not indented
top_level_match(line) ==
  /\ HasDigitAt(line, 1)
  /\ MatchAt(line, SkipDigits(line, 1), <<".">>)
  /\ SpaceAt(line, SkipDigits(line, 1) + 1)
Indented(original_line) ==
  startswith(original_line, <<" ">>) \/ startswith(original_line, <<"\t">>)
TopLevelItem(line) ==
  [title |-> <<>>, detail |-> strip(SubSeq(line, SkipDigits(line, 1) + 1, Len(line)))]
\* the line goes to the detail of the last item, or makes the first item
Continued(current_items, line) ==
  IF current_items = <<>> THEN <<[title |-> <<>>, detail |-> line]>>
  ELSE [current_items EXCEPT ![Len(current_items)].detail =
          IF @ # <<>> THEN @ \o <<"\n">> \o line ELSE line]
ItemsWith(current_items, original_line, line) ==
  IF bullet_bold_match(line) THEN Append(current_items, BulletItem(line))
  ELSE IF top_level_match(line) /\ ~Indented(original_line)
    THEN Append(current_items, TopLevelItem(line))
  ELSE Continued(current_items, line)
\* if current_heading: audit_subsections.append(...)
Closed(walk) ==
  IF walk.current_heading # <<>>
    THEN Append(walk.audit_subsections,
                [heading |-> walk.current_heading, items |-> walk.current_items])
  ELSE walk.audit_subsections
\* the body of the loop for one line
AuditStep(walk, original_line, line) ==
  IF BlankOrRule(line) \/ ScoreOrLabel(line) THEN walk
  ELSE IF IsHeading(line)
    THEN [audit_subsections |-> Closed(walk),
          current_heading |-> HeadingOf(line),
          current_items |-> <<>>]
  ELSE [walk EXCEPT !.current_items = ItemsWith(@, original_line, line)]
RECURSIVE AuditWalk(_, _, _)
AuditWalk(content_lines, i, walk) ==
  IF i > Len(content_lines) THEN Closed(walk)
  ELSE AuditWalk(content_lines, i + 1,
                 AuditStep(walk, content_lines[i], strip(content_lines[i])))
\* the walk without the catch-all sub-section
NoSummary(subsections, audit_content) == subsections
\* if not audit_subsections and audit_content.strip(): the "Audit Summary"
AuditSummaryOr(subsections, audit_content) ==
  IF subsections = <<>> /\ strip(audit_content) # <<>>
    THEN <<[heading |-> <<"A", "u", "d", "i", "t", " ", "S", "u", "m", "m", "a", "r", "y">>,
            items |-> <<[title |-> <<>>, detail |-> strip(audit_content)]>>]>>
  ELSE subsections
audit_subsections(audit_content) ==
  IF audit_content = <<>> THEN <<>>
  ELSE AuditSummaryOr(AuditWalk(split(strip(audit_content), "\n"), 1,
                                [audit_subsections |-> <<>>, current_heading |-> <<>>,
                                 current_items |-> <<>>]),
                      audit_content)
---------------------------------------------------------------------------
\* Outcome of a case (main.py: extract_outcome_from_filename)

ConvictedWords == {<<"f", "o", "u", "n", "d", " ", "g", "u", "i", "l", "t", "y">>, <<"c", "o", "n", "v", "i", "c", "t", "e", "d">>, <<"g", "u", "i", "l", "t", "y", " ", "o", "f", " ", "a", "l", "l", " ", "c", "h", "a", "r", "g", "e", "s">>, <<"c", "o", "n", "v", "i", "c", "t", "i", "o", "n">>}
AcquittedWords == {<<"a", "c", "q", "u", "i", "t", "t", "e", "d">>, <<"a", "c", "q", "u", "i", "t", "t", "a", "l">>, <<"n", "o", "t", " ", "g", "u", "i", "l", "t", "y">>}
AnyIn(words, text) == \E kw \in words : Contains(text, kw)
\* the fallback on the content of the legal summary
OutcomeOfSummary(legal_summary) ==
  IF legal_summary = <<>> THEN "Unknown"
  ELSE IF AnyIn(ConvictedWords, lower(legal_summary)) THEN "Convicted"
  ELSE IF AnyIn(AcquittedWords, lower(legal_summary)) THEN "Acquitted"
  ELSE "Unknown"
\* the summary asked before the file name
SummaryFirst(filename, legal_summary) ==
  IF OutcomeOfSummary(legal_summary) # "Unknown" THEN OutcomeOfSummary(legal_summary)
  ELSE IF startswith(upper(filename), <<"A", "C", "Q", "U", "I", "T", "T", "E", "D">>) THEN "Acquitted"
  ELSE IF startswith(upper(filename), <<"C", "O", "N", "V", "I", "C", "T">>) THEN "Convicted"
  ELSE "Unknown"
extract_outcome_from_filename(filename, legal_summary) ==
  IF startswith(upper(filename), <<"A", "C", "Q", "U", "I", "T", "T", "E", "D">>) THEN "Acquitted"
  ELSE IF startswith(upper(filename), <<"C", "O", "N", "V", "I", "C", "T", "E", "D">>) \/ startswith(upper(filename), <<"C", "O", "N", "V", "I", "C", "T", "I", "O", "N">>)
    THEN "Convicted"
  ELSE OutcomeOfSummary(legal_summary)
---------------------------------------------------------------------------
\* Verdict and status of a stored case (models.py: Case.is_active,
\* Case.verdict; services/analytics.py: VERDICT_SQL, IS_ACTIVE_SQL). A row is
\* [date, sentence_issued, summary], each a text or None (NULL).

invalid_dates == {<<"n", "o", "t", " ", "s", "p", "e", "c", "i", "f", "i", "e", "d">>, <<"n", "o", "t", " ", "m", "e", "n", "t", "i", "o", "n", "e", "d">>, <<"u", "n", "k", "n", "o", "w", "n">>, <<"n", "o", "n", "e">>, <<"n", "o", "t", " ", "p", "r", "o", "v", "i", "d", "e", "d">>}
invalid_markers == {<<"n", "o", "t", " ", "s", "p", "e", "c", "i", "f", "i", "e", "d">>, <<"n", "o", "t", " ", "m", "e", "n", "t", "i", "o", "n", "e", "d">>, <<"u", "n", "k", "n", "o", "w", "n">>, <<"n", "o", "n", "e">>}
\* (value or "")
OrEmpty(value) == IF value = None THEN <<>> ELSE value

\* has_date: bool(lower_date and not any(d in lower_date for d in invalid_dates))
HasDate(lower_date) == lower_date # <<>> /\ ~AnyIn(invalid_dates, lower_date)
\* has_valid_sentence: lower_sentence and not any(m in lower_sentence ...)
HasValidSentence(lower_sentence) == lower_sentence # <<>> /\ ~AnyIn(invalid_markers, lower_sentence)
\* Case.is_active
is_active(row) ==
  /\ ~HasDate(strip(lower(OrEmpty(row.date))))
  /\ ~HasValidSentence(lower(OrEmpty(row.sentence_issued)))

\* the label the words of a text give, "" when it has none of them
LabelOf(text, acquittal, conviction) ==
  IF AnyIn(acquittal, text) THEN "Acquittal"
  ELSE IF AnyIn(conviction, text) THEN "Conviction"
  ELSE IF Contains(text, <<"d", "i", "s", "m", "i", "s", "s">>) THEN "Dismissed"
  ELSE ""
SentenceLabel(lower_sentence) ==
  IF HasValidSentence(lower_sentence)
    THEN LabelOf(lower_sentence, {<<"a", "c", "q", "u", "i", "t", "t", "e">>, <<"n", "o", "t", " ", "g", "u", "i", "l", "t", "y">>}, {<<"c", "o", "n", "v", "i", "c", "t">>, <<"g", "u", "i", "l", "t", "y">>})
  ELSE ""
SummaryLabel(lower_summary) ==
  LabelOf(lower_summary, {<<"a", "c", "q", "u", "i", "t", "t", "a", "l">>, <<"a", "c", "q", "u", "i", "t", "t", "e", "d">>, <<"n", "o", "t", " ", "g", "u", "i", "l", "t", "y">>},
          {<<"c", "o", "n", "v", "i", "c", "t", "i", "o", "n">>, <<"c", "o", "n", "v", "i", "c", "t", "e", "d">>, <<"g", "u", "i", "l", "t", "y">>})
FirstLabel(from_sentence, from_summary) ==
  IF from_sentence # "" THEN from_sentence
  ELSE IF from_summary # "" THEN from_summary
  ELSE "Decided"
\* Case.verdict
verdict(row) ==
  IF is_active(row) THEN "Pending"
  ELSE FirstLabel(SentenceLabel(lower(OrEmpty(row.sentence_issued))),
                  SummaryLabel(lower(OrEmpty(row.summary))))

\* value IS NULL OR value = '' OR lower(value) IN (...)
NullOrIn(value, markers) == value = None \/ value = <<>> \/ lower(value) \in markers
\* the first WHEN of both expressions
PendingSql(row) == NullOrIn(row.date, invalid_dates) /\ NullOrIn(row.sentence_issued, invalid_markers)
\* the WHEN ... LIKE '%word%' branches over one column; a NULL matches none
SqlLabel(value, acquittal, conviction) ==
  IF value = None THEN "" ELSE LabelOf(lower(value), acquittal, conviction)
VERDICT_SQL(row) ==
  IF PendingSql(row) THEN "Pending"
  ELSE FirstLabel(SqlLabel(row.sentence_issued, {<<"a", "c", "q", "u", "i", "t", "t", "e">>, <<"n", "o", "t", " ", "g", "u", "i", "l", "t", "y">>}, {<<"c", "o", "n", "v", "i", "c", "t">>, <<"g", "u", "i", "l", "t", "y">>}),
                  SqlLabel(row.summary, {<<"a", "c", "q", "u", "i", "t", "t", "a", "l">>, <<"a", "c", "q", "u", "i", "t", "t", "e", "d">>, <<"n", "o", "t", " ", "g", "u", "i", "l", "t", "y">>},
                           {<<"c", "o", "n", "v", "i", "c", "t", "i", "o", "n">>, <<"c", "o", "n", "v", "i", "c", "t", "e", "d">>, <<"g", "u", "i", "l", "t", "y">>}))
IS_ACTIVE_SQL(row) == IF PendingSql(row) THEN 1 ELSE 0
---------------------------------------------------------------------------
\* Credentials (auth.py). The credential file is [exists, creds]; creds is
\* the dict of the accounts. A bcrypt hash is modelled by the record of the
\* password it was made from: checkpw holds for that password and no other.

hash_password(plain) == [bcrypt |-> plain]
verify_password(plain, hashed) == hashed = hash_password(plain)
DefaultCredentials ==
  <<[k |-> <<"a", "d", "m", "i", "n">>,
     v |-> [password_hash |-> hash_password(<<"a", "d", "m", "i", "n", "1", "2", "3">>), display_name |-> <<"A", "d", "m", "i", "n", "i", "s", "t", "r", "a", "t", "o", "r">>]]>>
\* _load_credentials: what it returns, and the file after it
load_credentials(file) == IF file.exists THEN file.creds ELSE DefaultCredentials
AfterLoad(file) == [exists |-> TRUE, creds |-> load_credentials(file)]
Saved(creds) == [exists |-> TRUE, creds |-> creds]
Remove(d, key) == SelectSeq(d, LAMBDA e : e.k # key)

\* authenticate_user: the value returned, and the file after the call
Verifies(creds, username, password) ==
  HasKey(creds, username) /\ verify_password(password, Get(creds, username).password_hash)
authenticate_user(file, username, password) ==
  username # <<>> /\ password # <<>> /\ Verifies(load_credentials(file), username, password)
AfterAuthenticate(file, username, password) ==
  IF username # <<>> /\ password # <<>> THEN AfterLoad(file) ELSE file
\* get_display_name
get_display_name(file, username) ==
  IF HasKey(load_credentials(file), username)
    THEN Get(load_credentials(file), username).display_name
  ELSE username

MinPasswordLen == 6
MinUsernameLen == 3
Refused(message, loaded) == [ok |-> FALSE, message |-> message, loaded |-> loaded, copy |-> <<>>]
Accepted(message, copy) == [ok |-> TRUE, message |-> message, loaded |-> TRUE, copy |-> copy]
\* change_password up to the point where it saves: the refusal, or the
\* modified copy of the credentials
PasswordEdit(creds, username, new_password) ==
  Put(creds, username, [Get(creds, username) EXCEPT !.password_hash = hash_password(new_password)])
PasswordAttempt(creds, username, current_password, new_password) ==
  IF current_password = <<>> \/ new_password = <<>> THEN Refused("All fields are required.", FALSE)
  ELSE IF Len(new_password) < MinPasswordLen
    THEN Refused("New password must be at least 6 characters.", FALSE)
  ELSE IF ~HasKey(creds, username) THEN Refused("User not found.", TRUE)
  ELSE IF ~Verifies(creds, username, current_password)
    THEN Refused("Current password is incorrect.", TRUE)
  ELSE Accepted("Password changed successfully.", PasswordEdit(creds, username, new_password))
\* change_username up to the point where it saves
UsernameEdit(creds, current_username, new_username) ==
  Put(Remove(creds, current_username), new_username, Get(creds, current_username))
\* the call without its test for an existing account of the new name
NameNeverTaken(creds, current_username, new_username) == FALSE
NameTaken(creds, current_username, new_username) ==
  HasKey(creds, new_username) /\ new_username # current_username
UsernameAttempt(creds, current_username, new_username, password) ==
  IF new_username = <<>> \/ password = <<>> THEN Refused("All fields are required.", FALSE)
  ELSE IF Len(new_username) < MinUsernameLen
    THEN Refused("Username must be at least 3 characters.", FALSE)
  ELSE IF ~HasKey(creds, current_username) THEN Refused("User not found.", TRUE)
  ELSE IF ~Verifies(creds, current_username, password) THEN Refused("Password is incorrect.", TRUE)
  ELSE IF NameTaken(creds, current_username, new_username) THEN Refused("Username already exists.", TRUE)
  ELSE Accepted("Username changed successfully.", UsernameEdit(creds, current_username, new_username))
\* the file after a call that made the attempt
FileAfter(file, attempt) ==
  IF attempt.ok THEN Saved(attempt.copy)
  ELSE IF attempt.loaded THEN AfterLoad(file)
  ELSE file
change_password(file, username, current_password, new_password) ==
  PasswordAttempt(load_credentials(file), username, current_password, new_password)
change_username(file, current_username, new_username, password) ==
  UsernameAttempt(load_credentials(file), current_username, new_username, password)
---------------------------------------------------------------------------
\* State

VARIABLES
  now_year,     \* datetime.now().year
  date_str,     \* parse_date: its argument
  pd_pc,        \* parse_date: "start", "formats", "verbose", "done" ("idle": not called)
  pd_k,         \* parse_date: index of the format the loop is at
  pd_result,    \* parse_date: the value returned, NoDate for None
  pd_tried,     \* parse_date: the strategies attempted so far, 1..8 the formats, 9 the verbose extractor
  pd_rejected,  \* parse_date: the first strategy whose candidate was dropped for its year, 0 if none
  pd_raised,    \* parse_date: an exception reached the caller
  data,         \* the export handed to load_from_json / the items of cases.json
  cases,        \* the cases table
  db_op,        \* the last ledger operation and the number it reported
  migrations,   \* runs of migrate_districts so far
  fs,           \* the files of the two analysis directories
  listing,      \* what load_analysis_list last returned
  detail,       \* what load_analysis_detail last returned
  doc_in,       \* the document text (or section record) handed to a parser
  doc_out,      \* the parser that ran last and what it returned
  credentials,  \* the credential file: whether it exists, and the accounts in it
  session,      \* the session of the browser
  response,     \* the last request and what became of it
  calls         \* the calls of change_password / change_username under way

dateVars == <<date_str, pd_pc, pd_k, pd_result, pd_tried, pd_rejected, pd_raised>>
ledgerVars == <<data, cases, db_op, migrations>>
loaderVars == <<fs, listing, detail>>
docVars == <<doc_in, doc_out>>
authVars == <<credentials, session, response, calls>>
vars == <<now_year, dateVars, ledgerVars, loaderVars, docVars, authVars>>

\* the verbose extractor's number in pd_tried
VERBOSE == Len(formats) + 1

---------------------------------------------------------------------------
\* Bounds and input sets

MaxDistrictParts == 3
MaxMigrations == 2
MaxFiles == 2

NowYears == {2026}

\* texts of one to three tokens joined by separators, in the shapes the strict
\* formats accept and near misses of them
DateTokA == {<<"0", "3">>, <<"3", "0", "t", "h">>, <<"3", "1">>, <<"2", "0", "2", "5">>, <<"2", "0", "9", "5">>, <<"F", "e", "b", "r", "u", "a", "r", "y">>}
DateSeps == {<<"-">>, <<"/">>, <<".">>, <<" ">>, <<",", " ">>}
DateTokB == {<<"1", "0">>, <<"0", "2">>, <<"O", "c", "t", "o", "b", "e", "r">>, <<"F", "e", "b", "r", "u", "a", "r", "y">>, <<"1", "5">>}
DateTokC == {<<"2", "0", "2", "5">>, <<"2", "0", "9", "5">>, <<"2", "0", "2", "7">>, <<"2", "5">>, <<"5", "0">>, <<"0", "9">>}
StrictInputs == {Join(<<a, s1, b, s2, c>>) : a \in DateTokA, s1 \in DateSeps, b \in DateTokB, s2 \in DateSeps, c \in DateTokC}

\* prose dates: day, month name and year with filler words around them
VerbosePre == {<<>>, <<"T", "h", "u", "r", "s", "d", "a", "y", ",", " ", "t", "h", "i", "s", " ", "t", "h", "e", " ">>, <<"o", "n", " ", "t", "h", "i", "s", " ">>}
VerboseDay == {<<"0", "9">>, <<"9">>, <<"9", "t", "h">>, <<"3", "1">>}
VerboseFill == {<<" ", "d", "a", "y", " ", "o", "f", " ">>, <<" ">>}
VerboseMonth == {<<"O", "c", "t", "o", "b", "e", "r">>, <<"F", "e", "b", "r", "u", "a", "r", "y">>, <<"m", "a", "y">>}
VerboseSep == {<<",", " ">>, <<" ">>}
VerboseYear == {<<"2", "0", "2", "5">>, <<"2", "0", "9", "5">>, <<"2", "0", "2", "7">>}
VerbosePost == {<<>>, <<".">>}
VerboseInputs == {Join(<<p, d, f, m, s, y, q>>) : p \in VerbosePre, d \in VerboseDay, f \in VerboseFill, m \in VerboseMonth, s \in VerboseSep, y \in VerboseYear, q \in VerbosePost}

DateInputs == StrictInputs \cup VerboseInputs \cup {<<>>, None, Number}

\* district texts: up to MaxDistrictParts of these parts, joined
DistrictParts == {<<"r", "a">>, <<"n", "g", "a">>, <<".">>, <<" ">>, <<"d", "i", "s", "t">>, <<"L", "u", "c", "k", "N", "o", "w">>, <<"C", "y", "b", "e", "r", "a", "b", "a", "d">>, <<"H", "y", "d", "e", "r", "a", "b", "a", "d">>}
RECURSIVE PartSeqs(_, _)
PartSeqs(parts, n) == IF n = 0 THEN {<<>>} ELSE PartSeqs(parts, n - 1) \cup {Append(q, p) : q \in PartSeqs(parts, n - 1), p \in parts}
DistrictInputs == {Join(q) : q \in PartSeqs(DistrictParts, MaxDistrictParts)} \cup {None}

LedgerCornos == {<<"C", "C", " ", "1", "2", "/", "2", "0", "2", "4">>, <<"[", "c", "a", "s", "e", " ", "n", "u", "m", "b", "e", "r", "]">>}
LedgerDates == {<<"0", "3", "-", "1", "0", "-", "2", "0", "2", "5">>}
\* the exports: one record with a district text, or one whose date is a number
Exports ==
  {<<[corno |-> c, district |-> x, date |-> t]>> : c \in LedgerCornos, x \in DistrictInputs, t \in LedgerDates}
  \cup {<<[corno |-> c, district |-> <<"H", "y", "d", "e", "r", "a", "b", "a", "d">>, date |-> Number]>> : c \in LedgerCornos}

\* file names: a stem, then the extension
Stems == {<<>>, <<"a">>, <<"n", "p", "a", "_", "a">>, <<"s", "t", "d", "_", "a">>}
MdFiles == [dir : {ANALYSIS_DIR}, name : {st \o <<"_", "a", "n", "a", "l", "y", "s", "i", "s", ".", "m", "d">> : st \in Stems}, body : {"text", "unreadable"}]
JsonFiles == [dir : {ANALYSIS_DIR, NPA_ANALYSIS_DIR}, name : {st \o <<".", "j", "s", "o", "n">> : st \in Stems},
              body : {"object", "section_text", "sections_array", "array", "unreadable"}]
\* the sets of at most n files in which a directory holds one file of a name
RECURSIVE FileSets(_, _)
FileSets(files, n) ==
  IF n = 0 THEN {{}}
  ELSE FileSets(files, n - 1) \cup
       UNION {{S \cup {f} : f \in {h \in files : \A g \in S : g.dir # h.dir \/ g.name # h.name}} :
                S \in FileSets(files, n - 1)}
FileSystems == FileSets(MdFiles \cup JsonFiles, MaxFiles)
\* slugs a client may ask for beside the ones the list view gave out
ProbeSlugs == {<<"a">>, <<"n", "p", "a", "_", "a">>, <<"s", "t", "d", "_", "a">>, <<"s", "t", "d", "_">>}

NoListing == [called |-> FALSE, raised |-> FALSE, analyses |-> <<>>, total |-> 0]
NoDetail == [outcome |-> "none", slug |-> <<>>, path |-> [dir |-> "", name |-> <<>>]]

---------------------------------------------------------------------------
\* parse_date, step by step

DateIdle ==
  /\ date_str = <<>> /\ pd_pc = "idle" /\ pd_k = 0 /\ pd_result = NoDate
  /\ pd_tried = <<>> /\ pd_rejected = 0 /\ pd_raised = FALSE
LedgerIdle == data = <<>> /\ cases = <<>> /\ db_op = [name |-> "none", n |-> 0, raised |-> FALSE] /\ migrations = 0
LoaderIdle == fs = {} /\ listing = NoListing /\ detail = NoDetail
DocIdle == doc_in = [kind |-> "none"] /\ doc_out = [op |-> "none"]
NoSession == [authenticated |-> FALSE, username |-> <<>>, display_name |-> <<>>]
NoResponse == [method |-> "none", path |-> <<>>, handler |-> "none", status |-> "none"]
AuthIdle ==
  /\ credentials = [exists |-> FALSE, creds |-> <<>>]
  /\ session = NoSession
  /\ response = NoResponse
  /\ calls = <<>>

InitDate ==
  /\ now_year \in NowYears
  /\ date_str \in DateInputs
  /\ pd_pc = "start" /\ pd_k = 0 /\ pd_result = NoDate
  /\ pd_tried = <<>> /\ pd_rejected = 0 /\ pd_raised = FALSE
  /\ LedgerIdle /\ LoaderIdle /\ DocIdle /\ AuthIdle

\* "if not date_str: return None", then "s = date_str.strip()", which raises
\* on a value that is no str; else the loop starts
Begin ==
  /\ pd_pc = "start"
  /\ IF date_str = None \/ date_str = <<>>
     THEN pd_pc' = "done" /\ pd_k' = pd_k /\ pd_raised' = FALSE
     ELSE IF date_str = Number
     THEN pd_pc' = "done" /\ pd_k' = pd_k /\ pd_raised' = TRUE
     ELSE pd_pc' = "formats" /\ pd_k' = 1 /\ pd_raised' = FALSE
  /\ UNCHANGED <<now_year, authVars, date_str, pd_result, pd_tried, pd_rejected, ledgerVars, loaderVars, docVars>>

\* one iteration of "for fmt in formats"
FormatOutcome(r) ==
  /\ pd_tried' = Append(pd_tried, pd_k)
  /\ pd_rejected' = IF pd_rejected = 0 /\ r.rejected THEN pd_k ELSE pd_rejected
  /\ pd_raised' = r.raised
  /\ pd_result' = r.date
  /\ pd_pc' = IF r.raised \/ r.kind = "return" THEN "done"
              ELSE IF pd_k = Len(formats) THEN "verbose" ELSE "formats"
  /\ pd_k' = IF r.raised \/ r.kind = "return" THEN pd_k ELSE pd_k + 1
FormatStep ==
  /\ pd_pc = "formats"
  /\ FormatOutcome(TryFormat(strip(date_str), formats[pd_k], now_year))
  /\ UNCHANGED <<now_year, authVars, date_str, ledgerVars, loaderVars, docVars>>

\* the verbose extractor and the final "return None"
VerboseOutcome(r) ==
  /\ pd_tried' = Append(pd_tried, VERBOSE)
  /\ pd_rejected' = IF pd_rejected = 0 /\ r.rejected THEN VERBOSE ELSE pd_rejected
  /\ pd_raised' = r.raised
  /\ pd_result' = r.date
  /\ pd_pc' = "done"
VerboseStep ==
  /\ pd_pc = "verbose"
  /\ VerboseOutcome(VerboseExtract(strip(date_str), now_year))
  /\ UNCHANGED <<now_year, authVars, date_str, pd_k, ledgerVars, loaderVars, docVars>>

NextDate == Begin \/ FormatStep \/ VerboseStep
SpecDate == InitDate /\ [][NextDate]_vars

---------------------------------------------------------------------------
\* One record's way through the ledger

InitDistrict ==
  /\ now_year \in NowYears
  /\ data \in Exports
  /\ cases = <<>> /\ db_op = [name |-> "none", n |-> 0, raised |-> FALSE] /\ migrations = 0
  /\ DateIdle /\ LoaderIdle /\ DocIdle /\ AuthIdle

\* load_from_json(data)
Loaded(r) == cases' = r.cases /\ db_op' = [name |-> "load_from_json", n |-> r.count, raised |-> r.raised]
LoadFromJson ==
  /\ db_op.name = "none"
  /\ Loaded(load_from_json(data, cases, now_year))
  /\ UNCHANGED <<now_year, authVars, data, migrations, dateVars, loaderVars, docVars>>

\* init_db() on an empty table: cases.json is loaded as it is
InitDb ==
  /\ db_op.name = "none" /\ cases = <<>>
  /\ cases' = load_initial_data(data, 1, cases)
  /\ db_op' = [name |-> "init_db", n |-> Len(data), raised |-> FALSE]
  /\ UNCHANGED <<now_year, authVars, data, migrations, dateVars, loaderVars, docVars>>

\* a run of migrate_districts.py
Migrated(r) == cases' = r.cases /\ db_op' = [name |-> "migrate_districts", n |-> r.updated, raised |-> FALSE]
MigrateDistricts ==
  /\ db_op.name # "none" /\ migrations < MaxMigrations
  /\ Migrated(migrate_districts(cases))
  /\ migrations' = migrations + 1
  /\ UNCHANGED <<now_year, authVars, data, dateVars, loaderVars, docVars>>

NextDistrict == LoadFromJson \/ InitDb \/ MigrateDistricts
SpecDistrict == InitDistrict /\ [][NextDistrict]_vars

---------------------------------------------------------------------------
\* The list view and the detail view over one set of files

Init ==
  /\ now_year \in NowYears
  /\ fs \in FileSystems
  /\ listing = NoListing /\ detail = NoDetail
  /\ DateIdle /\ LedgerIdle /\ DocIdle /\ AuthIdle

\* GET /analyses: load_analysis_list()
LoadAnalysisList ==
  /\ listing' = [called |-> TRUE] @@ load_analysis_list(fs)
  /\ UNCHANGED <<now_year, authVars, fs, detail, dateVars, ledgerVars, docVars>>

\* GET /analysis/{slug}: load_analysis_detail(slug), for a slug of the list or a probe
LoadAnalysisDetail ==
  /\ \E slug \in {listing.analyses[i].slug : i \in DOMAIN listing.analyses} \cup ProbeSlugs :
       detail' = load_analysis_detail(fs, slug)
  /\ UNCHANGED <<now_year, authVars, fs, listing, dateVars, ledgerVars, docVars>>

Next == LoadAnalysisList \/ LoadAnalysisDetail
Spec == Init /\ [][Next]_vars

---------------------------------------------------------------------------
\* The severity score of a document: the audit section of a markdown report or
\* of a JSON export, read by the list view and by the detail view.

MaxAuditLines == 3
NL == <<"\n">>
AuditLines ==
  {<<"P", "o", "l", "i", "c", "e", " ", "S", "c", "o", "r", "e", ":", " ", "4">>, <<"#", "#", "#", " ", "O", "v", "e", "r", "a", "l", "l", " ", "L", "a", "p", "s", "e", " ", "S", "e", "v", "e", "r", "i", "t", "y", " ", "S", "c", "o", "r", "e">>, <<"*", "*", "S", "c", "o", "r", "e", ":", " ", "7", "*", "*">>,
   <<"L", "a", "p", "s", "e", " ", "S", "e", "v", "e", "r", "i", "t", "y", " ", "S", "c", "o", "r", "e", ":", " ", "*", "*", "1", "5">>, <<">", " ", "*", "*", "L", "a", "p", "s", "e", " ", "S", "e", "v", "e", "r", "i", "t", "y", " ", "S", "c", "o", "r", "e", ":", " ", "3", "/", "1", "0", " ", "(", "x", ")", "*", "*">>,
   <<"F", "i", "n", "a", "l", " ", "s", "c", "o", "r", "e", ":", " ", "1", "2">>, <<"n", "o", "t", "e">>}
AuditTexts == {join(NL, ls) : ls \in UNION {[1..n -> AuditLines] : n \in 0..MaxAuditLines}}
\* the values of "severity_score" in the audit section of a JSON export;
\* NoScore stands for a section without the key
EmbeddedScores == {NoScore, IntScore(0), IntScore(5), IntScore(42), StrScore}
AuditDocs ==
  {[kind |-> "md", text |-> t, severity_score |-> NoScore] : t \in AuditTexts}
    \cup {[kind |-> "json", text |-> t, severity_score |-> e] : t \in AuditTexts, e \in EmbeddedScores}

\* sections.get("Investigation Quality Audit", {}) of the document
AuditSection(doc) ==
  IF doc.kind = "md" THEN audit_sec_data(doc.text)
  ELSE [content |-> doc.text, severity_score |-> doc.severity_score]

OthersIdle == now_year \in NowYears /\ DateIdle /\ LedgerIdle /\ LoaderIdle /\ AuthIdle
InitSeverity ==
  /\ doc_in \in AuditDocs
  /\ doc_out = [op |-> "none"]
  /\ OthersIdle

\* load_analysis_list / load_json_analyses: the "severity_score" of the entry
ListSeverity ==
  /\ doc_out.op = "none"
  /\ doc_out' = [op |-> "list", severity |-> list_severity(AuditSection(doc_in))]
  /\ UNCHANGED <<now_year, authVars, dateVars, ledgerVars, loaderVars, doc_in>>
\* load_analysis_detail / load_json_analysis_detail: the "severity_score" of the record
DetailSeverity ==
  /\ doc_out.op = "none"
  /\ doc_out' = [op |-> "detail", severity |-> detail_severity(AuditSection(doc_in))]
  /\ UNCHANGED <<now_year, authVars, dateVars, ledgerVars, loaderVars, doc_in>>

NextSeverity == ListSeverity \/ DetailSeverity
SpecSeverity == InitSeverity /\ [][NextSeverity]_vars
---------------------------------------------------------------------------
\* parse_markdown_table on the content of a metadata section

MaxTableRows == 2
TablePreambles == {<<>>, <<Backtick, Backtick, Backtick>> \o <<"m", "a", "r", "k", "d", "o", "w", "n">>, <<"#", " ", "M", "e", "t", "a", "d", "a", "t", "a", " ", "E", "x", "t", "r", "a", "c", "t", "i", "o", "n">>}
HeaderLines ==
  {<<"|", " ", "C", "o", "u", "r", "t", " ", "|", " ", "J", "u", "d", "g", "e", " ", "|">>, <<"|", " ", "F", "i", "e", "l", "d", " ", "|", " ", "V", "a", "l", "u", "e", " ", "|">>, <<"|", " ", "*", "*", "M", "e", "t", "a", "d", "a", "t", "a", " ", "F", "i", "e", "l", "d", ":", "*", "*", " ", "|", " ", "V", "a", "l", "u", "e", " ", "|", " ", "N", "o", "t", "e", " ", "|">>,
   <<"|", " ", "F", "I", "E", "L", "D", " ", "|">>, <<"|", " ", "F", "i", "e", "l", "d", " ", "|", " ", "F", "i", "e", "l", "d", " ", "|">>, <<"|", " ", "f", "i", "e", "l", "d", " ", "|", " ", "V", "a", "l", "u", "e", " ", "|", " ", "V", "a", "l", "u", "e", " ", "|">>, <<"|", " ", " ", "|", " ", "J", "u", "d", "g", "e", " ", "|", " ", "C", "o", "u", "r", "t">>}
SeparatorLine == <<"|", "-", "-", "-", "|", "-", "-", "-", "|">>
RowLines ==
  {<<"|", " ", "H", "C", " ", "|", " ", "R", "a", "o", " ", "|">>, <<"|", " ", "C", "o", "u", "r", "t", " ", "|", " ", "*", "*", "H", "C", "*", "*", " ", "|">>, <<"|", " ", " ", "c", "o", "u", "r", "t", " ", "|", " ", "S", "C", " ", "|", " ", "x", " ", "|", " ", "y", " ", "|">>, <<"|", " ", "J", "u", "d", "g", "e", " ", "|">>, <<"n", "o", "t", "e">>, <<"|", "|">>}
TableBodies == UNION {[1..n -> RowLines] : n \in 0..MaxTableRows}
TableLinesOf(pre, header, body) ==
  (IF pre = <<>> THEN <<>> ELSE <<pre>>) \o <<header, SeparatorLine>> \o body
TableTexts ==
  {join(NL, TableLinesOf(pre, h, b)) : pre \in TablePreambles, h \in HeaderLines, b \in TableBodies}

InitTable ==
  /\ doc_in \in {[kind |-> "table", text |-> t] : t \in TableTexts}
  /\ doc_out = [op |-> "none"]
  /\ OthersIdle

ParseMarkdownTable ==
  /\ doc_out.op = "none"
  /\ doc_out' = [op |-> "parse_markdown_table", rows |-> parse_markdown_table(doc_in.text)]
  /\ UNCHANGED <<now_year, authVars, dateVars, ledgerVars, loaderVars, doc_in>>

NextTable == ParseMarkdownTable
SpecTable == InitTable /\ [][NextTable]_vars
---------------------------------------------------------------------------
\* The metadata of a document, as the list view and the detail view assemble it

MaxMetaRows == 2
MetaRowLines ==
  {<<"|", " ", "F", "u", "l", "l", " ", "C", "o", "u", "r", "t", " ", "N", "a", "m", "e", " ", "|", " ", "*", "*", "H", "C", "*", "*", " ", "|">>, <<"|", " ", "*", "*", "P", "r", "e", "s", "i", "d", "i", "n", "g", "*", "*", " ", "J", "u", "d", "g", "e", "s", " ", "o", "f", " ", "t", "h", "e", " ", "f", "u", "l", "l", " ", "c", "o", "u", "r", "t", " ", "|", " ", "R", "a", "o", " ", "|">>,
   <<"|", " ", "C", "i", "t", "a", "t", "i", "o", "n", " ", "|", " ", "1", "2", "/", "2", "0", "2", "0", " ", "|">>, <<"|", " ", "P", "a", "r", "t", "i", "e", "s", " ", "a", "n", "d", " ", "D", "a", "t", "e", " ", "|", " ", "A", " ", "v", "s", " ", "B", " ", "|">>,
   <<"|", " ", "D", "a", "t", "e", " ", "o", "f", " ", "J", "u", "d", "g", "e", "m", "e", "n", "t", " ", "|", " ", "I", "S", "O", ":", " ", "2", "0", "2", "5", "-", "1", "2", "-", "1", "5", "<", "b", "r", ">", "N", "a", "t", "u", "r", "a", "l", " ", "T", "e", "x", "t", ":", " ", "1", "5", "t", "h", " ", "|">>,
   <<"|", " ", "D", "a", "t", "e", " ", "(", "I", "S", "O", " ", "+", " ", "N", "a", "t", "u", "r", "a", "l", ")", " ", "|", " ", "2", "0", "2", "5", "-", "1", "2", "-", "1", "5", " ", "(", "M", "o", "n", "d", "a", "y", ")", " ", "|">>, <<"|", " ", "R", "e", "m", "a", "r", "k", "s", " ", "|", " ", "n", "o", "n", "e", " ", "|">>}
MetaTables ==
  {join(NL, <<<<"|", " ", "F", "i", "e", "l", "d", " ", "|", " ", "V", "a", "l", "u", "e", " ", "|">>, SeparatorLine>> \o b) :
     b \in UNION {[1..n -> MetaRowLines] : n \in 0..MaxMetaRows}}
LegalSummaries ==
  {<<>>, <<"N", "o", " ", "f", "a", "c", "t", "s", ".">>,
   <<"H", "e", "a", "r", "d", " ", "b", "y", " ", "t", "h", "e", " ", "S", "e", "s", "s", "i", "o", "n", "s", " ", "C", "o", "u", "r", "t", " ", "a", "t", " ", "5", " ", "p", "m", ".", " ", "S", "C", " ", "N", "o", ".", " ", "1", "2", " ", "o", "f", " ", "2", "0", "2", "0", ".", " ", "S", "t", "a", "t", "e", " ", "o", "f", " ", "A", "P", " ", "v", "s", " ", "R", "a", "v", "i", " ", "K", "u", "m", "a", "r", ",", " ", "x">>}
Timelines == {<<>>, <<"-", " ", "*", "*", "1", "2", " ", "M", "a", "r", "c", "h", " ", "2", "0", "2", "4", "*", "*", ":", " ", "J", "u", "d", "g", "m", "e", "n", "t">>}
MetaDocs ==
  {[kind |-> k, meta |-> m, legal |-> l, timeline |-> t] :
     k \in {"md", "json"}, m \in MetaTables, l \in LegalSummaries, t \in Timelines}

InitMetadata ==
  /\ doc_in \in MetaDocs
  /\ doc_out = [op |-> "none"]
  /\ OthersIdle

\* normalize_metadata on the first row of the metadata table
NormalizeMetadata ==
  /\ doc_out.op = "none"
  /\ doc_out' = [op |-> "normalize_metadata",
                 raw |-> FirstRow(parse_markdown_table(doc_in.meta)),
                 out |-> normalized(doc_in.meta)]
  /\ UNCHANGED <<now_year, authVars, dateVars, ledgerVars, loaderVars, doc_in>>
\* load_analysis_list / load_json_analyses: the metadata fields of the entry
ListMetadata ==
  /\ doc_out.op = "none"
  /\ doc_out' = [op |-> "list", fields |-> ListFields(assemble_metadata(doc_in))]
  /\ UNCHANGED <<now_year, authVars, dateVars, ledgerVars, loaderVars, doc_in>>
\* load_analysis_detail / load_json_analysis_detail: the "metadata" of the record
DetailMetadata ==
  /\ doc_out.op = "none"
  /\ doc_out' = [op |-> "detail", metadata |-> assemble_metadata(doc_in)]
  /\ UNCHANGED <<now_year, authVars, dateVars, ledgerVars, loaderVars, doc_in>>

NextMetadata == NormalizeMetadata \/ ListMetadata \/ DetailMetadata
SpecMetadata == InitMetadata /\ [][NextMetadata]_vars
---------------------------------------------------------------------------
\* The legal summary of a document, as the detail view cuts it into items

MaxSummaryLines == 3
SummaryLines ==
  {<<"N", "o", " ", "f", "a", "c", "t", "s", ".">>, <<"1", ".", " ", "F", "a", "c", "t", "s">>, <<"#", "#", "#", " ", "2", ".", " ", "*", "*", "I", "s", "s", "u", "e", "*", "*", ":">>, <<"1", ".", " ", "H", "e", "l", "d", ":", " ", "a", "c", "q", "u", "i", "t", "t", "e", "d">>,
   <<" ", " ", "t", "h", "e", " ", "a", "c", "c", "u", "s", "e", "d", " ">>, <<>>}
Narratives ==
  {join(NL, ls) : ls \in UNION {[1..n -> SummaryLines] : n \in 0..MaxSummaryLines}}

InitSummary ==
  /\ doc_in \in {[legal |-> t] : t \in Narratives}
  /\ doc_out = [op |-> "none"]
  /\ OthersIdle

\* load_analysis_detail / load_json_analysis_detail: the "legal_summary" of the
\* record, from the content of the section "Judgment at a Glance" or "Comprehensive Legal Summary"
LegalSummary ==
  /\ doc_out.op = "none"
  /\ doc_out' = [op |-> "legal_summary", items |-> legal_items(doc_in.legal)]
  /\ UNCHANGED <<now_year, authVars, dateVars, ledgerVars, loaderVars, doc_in>>

NextSummary == LegalSummary
SpecSummary == InitSummary /\ [][NextSummary]_vars
---------------------------------------------------------------------------
\* The timeline of a markdown report, as the detail view cuts it into entries

MaxTimelineLines == 3
TimelineLines ==
  {<<"-", " ", "*", "*", "1", "2", " ", "M", "a", "r", "c", "h", " ", "2", "0", "2", "4", "*", "*", ":", " ", "F", "I", "R", " ", "l", "o", "d", "g", "e", "d">>, <<"-", " ", "f", "i", "l", "e", "d", " ", "*", "*", "l", "a", "t", "e", "*", "*">>, <<"-", " ", "*", "*", " ", "*", "*", ":">>,
   <<" ", " ", "c", "o", "n", "t", "i", "n", "u", "e", "d", " ">>, <<"-", " ", "p", "l", "a", "i", "n">>, <<"*", "*", "C", "h", "r", "o", "n", "o", "l", "o", "g", "i", "c", "a", "l", " ", "E", "v", "e", "n", "t", " ", "T", "i", "m", "e", "l", "i", "n", "e", "*", "*">>, <<>>}
\* the content of a section of parse_markdown_sections has no white space
\* around it
TimelineContents ==
  {strip(join(NL, ls)) : ls \in UNION {[1..n -> TimelineLines] : n \in 0..MaxTimelineLines}}

InitTimeline ==
  /\ doc_in \in {[timeline |-> t] : t \in TimelineContents}
  /\ doc_out = [op |-> "none"]
  /\ OthersIdle

\* load_analysis_detail: the "timeline" of the record of a markdown report,
\* from the content of the section "Chronological Event Timeline"
TimelineEntries ==
  /\ doc_out.op = "none"
  /\ doc_out' = [op |-> "timeline", entries |-> timeline_items(doc_in.timeline)]
  /\ UNCHANGED <<now_year, authVars, dateVars, ledgerVars, loaderVars, doc_in>>

NextTimeline == TimelineEntries
SpecTimeline == InitTimeline /\ [][NextTimeline]_vars
---------------------------------------------------------------------------
\* The audit sub-sections of a document, as the detail view cuts them out of
\* the audit section of a markdown report or of a JSON export

MaxWalkLines == 3
WalkLineSet ==
  {<<"#", "#", "#", " ", "P", "o", "l", "i", "c", "e">>, <<"*", "*", "F", "o", "r", "e", "n", "s", "i", "c", " ", "L", "a", "p", "s", "e", "s", "*", "*", ":">>, <<"-", " ", "*", "*", "D", "e", "l", "a", "y", "*", "*", ":", " ", "F", "I", "R", " ", "l", "a", "t", "e">>, <<"1", ".", " ", "n", "o", " ", "p", "a", "n", "c", "h", "n", "a", "m", "a">>,
   <<" ", " ", "m", "o", "r", "e", " ", "d", "e", "t", "a", "i", "l">>, <<"*", "*", "S", "c", "o", "r", "e", ":", " ", "7", "*", "*">>, <<"#", "#", "#", " ", "*", "*">>, <<>>}
WalkTexts == {join(NL, ls) : ls \in UNION {[1..n -> WalkLineSet] : n \in 0..MaxWalkLines}}
WalkDocs ==
  {[kind |-> k, text |-> t, severity_score |-> NoScore] : k \in {"md", "json"}, t \in WalkTexts}

InitAudit ==
  /\ doc_in \in WalkDocs
  /\ doc_out = [op |-> "none"]
  /\ OthersIdle

\* load_analysis_detail / load_json_analysis_detail: the "audit_subsections"
\* of the record, from the content of the section "Investigation Quality Audit"
AuditSubsections ==
  /\ doc_out.op = "none"
  /\ doc_out' = [op |-> "audit", content |-> AuditSection(doc_in).content,
                 subsections |-> audit_subsections(AuditSection(doc_in).content)]
  /\ UNCHANGED <<now_year, authVars, dateVars, ledgerVars, loaderVars, doc_in>>

NextAudit == AuditSubsections
SpecAudit == InitAudit /\ [][NextAudit]_vars
---------------------------------------------------------------------------
\* The outcome of a document, from its file name and its legal summary

NameHeads ==
  {<<"A", "C", "Q", "U", "I", "T", "T", "E", "D">>, <<"a", "c", "q", "u", "i", "t", "t", "e", "d">>, <<"C", "o", "n", "v", "i", "c", "t", "e", "d">>, <<"C", "O", "N", "V", "I", "C", "T", "I", "O", "N">>, <<"C", "O", "N", "V", "I", "C", "T">>, <<"c", "a", "s", "e", "_", "a", "c", "q", "u", "i", "t", "t", "e", "d">>, <<>>}
NameTails == {<<"_", "2", "0", "2", "4", "_", "c", "a", "s", "e", ".", "m", "d">>, <<".", "j", "s", "o", "n">>}
FileNames == {h \o t : h \in NameHeads, t \in NameTails}
OutcomeSummaries ==
  {<<>>, <<"T", "h", "e", " ", "a", "c", "c", "u", "s", "e", "d", " ", "w", "a", "s", " ", "f", "o", "u", "n", "d", " ", "g", "u", "i", "l", "t", "y", ".">>, <<"T", "h", "e", " ", "a", "c", "c", "u", "s", "e", "d", " ", "w", "a", "s", " ", "A", "C", "Q", "U", "I", "T", "T", "E", "D", ".">>,
   <<"A", "1", " ", "c", "o", "n", "v", "i", "c", "t", "e", "d", ",", " ", "A", "2", " ", "a", "c", "q", "u", "i", "t", "t", "e", "d", ".">>, <<"H", "e", "l", "d", " ", "n", "o", "t", " ", "g", "u", "i", "l", "t", "y", ".">>, <<"A", "p", "p", "e", "a", "l", " ", "d", "i", "s", "m", "i", "s", "s", "e", "d", ".">>,
   <<"O", "r", "d", "e", "r", " ", "o", "f", " ", "a", "c", "q", "u", "i", "t", "t", "a", "l", ".">>, <<"C", "o", "n", "v", "i", "c", "t", "i", "o", "n", " ", "s", "e", "t", " ", "a", "s", "i", "d", "e", ".">>}

InitOutcome ==
  /\ doc_in \in {[filename |-> f, legal |-> l] : f \in FileNames, l \in OutcomeSummaries}
  /\ doc_out = [op |-> "none"]
  /\ OthersIdle

\* the "outcome" of a list entry or of a detail record
ExtractOutcome ==
  /\ doc_out.op = "none"
  /\ doc_out' = [op |-> "outcome",
                 outcome |-> extract_outcome_from_filename(doc_in.filename, doc_in.legal)]
  /\ UNCHANGED <<now_year, authVars, dateVars, ledgerVars, loaderVars, doc_in>>

NextOutcome == ExtractOutcome
SpecOutcome == InitOutcome /\ [][NextOutcome]_vars
---------------------------------------------------------------------------
\* The batch of the list view (main.py: load_analysis_list): the entries of
\* the markdown reports, of the standard JSON exports and of the NPA JSON
\* exports, and the aggregate over them

\* the entry of one document
SummaryEntry(doc) ==
  [source |-> IF doc.kind = "npa" THEN "NPA" ELSE "Standard",
   filename |-> doc.filename,
   outcome |-> extract_outcome_from_filename(doc.filename, doc.legal),
   severity_score |-> list_severity(AuditSection(doc))]
OfKind(docs, kind) == SelectSeq(docs, LAMBDA doc : doc.kind = kind)
EntriesFrom(docs) == [i \in 1..Len(docs) |-> SummaryEntry(docs[i])]
\* analyses: the markdown entries, then std_json, then npa_json
Analyses(docs) ==
  EntriesFrom(OfKind(docs, "md")) \o EntriesFrom(OfKind(docs, "std")) \o EntriesFrom(OfKind(docs, "npa"))
\* outcomes[outcome] = outcomes.get(outcome, 0) + 1 over the entries
RECURSIVE CountOutcomes(_, _)
CountOnlyFirst(entries, outcomes) ==
  IF entries = <<>> THEN outcomes
  ELSE [outcomes EXCEPT ![entries[1].outcome] = @ + 1]
CountOutcomes(entries, outcomes) ==
  IF entries = <<>> THEN outcomes
  ELSE CountOutcomes(Tail(entries), [outcomes EXCEPT ![Head(entries).outcome] = @ + 1])
\* severity_scores: the scores that are not None
IsPresent(entry) == entry.severity_score.t # "none"
severity_scores(entries) == SelectSeq(entries, IsPresent)
RECURSIVE SumScores(_)
SumScores(scored) ==
  IF scored = <<>> THEN 0 ELSE Head(scored).severity_score.v + SumScores(Tail(scored))
\* round(total / n, 1), in tenths: to the nearest tenth, a tie to the even one
RoundTenths(total, n) ==
  IF 2 * ((10 * total) % n) < n THEN (10 * total) \div n
  ELSE IF 2 * ((10 * total) % n) > n THEN (10 * total) \div n + 1
  ELSE IF ((10 * total) \div n) % 2 = 0 THEN (10 * total) \div n
  ELSE (10 * total) \div n + 1
avg_severity(scored) == IF scored = <<>> THEN 0 ELSE RoundTenths(SumScores(scored), Len(scored))
\* sum() raises TypeError on a score that is no number
SumRaises(scored) == \E i \in 1..Len(scored) : scored[i].severity_score.t = "str"
Aggregate(analyses) ==
  IF SumRaises(severity_scores(analyses)) THEN [op |-> "raised"]
  ELSE [op |-> "batch",
        analyses |-> analyses,
        total |-> Len(analyses),
        avg_severity |-> avg_severity(severity_scores(analyses)),
        outcomes |-> CountOutcomes(analyses, [o \in {"Acquitted", "Convicted", "Unknown"} |-> 0])]
BatchOf(docs) == Aggregate(Analyses(docs))
---------------------------------------------------------------------------
\* The documents of the two analysis directories and the list view over them

MaxBatchDocs == 3
BatchDocs ==
  {[kind |-> "md", filename |-> <<"A", "C", "Q", "U", "I", "T", "T", "E", "D", "_", "1", "_", "a", "n", "a", "l", "y", "s", "i", "s", ".", "m", "d">>, legal |-> <<>>,
    text |-> <<"F", "i", "n", "a", "l", " ", "s", "c", "o", "r", "e", ":", " ", "1", "2">>, severity_score |-> NoScore],
   [kind |-> "md", filename |-> <<"x", "_", "a", "n", "a", "l", "y", "s", "i", "s", ".", "m", "d">>, legal |-> <<"f", "o", "u", "n", "d", " ", "g", "u", "i", "l", "t", "y">>,
    text |-> <<>>, severity_score |-> NoScore],
   [kind |-> "std", filename |-> <<"y", ".", "j", "s", "o", "n">>, legal |-> <<>>,
    text |-> <<>>, severity_score |-> IntScore(0)],
   [kind |-> "std", filename |-> <<"z", ".", "j", "s", "o", "n">>, legal |-> <<"O", "r", "d", "e", "r", " ", "o", "f", " ", "a", "c", "q", "u", "i", "t", "t", "a", "l", ".">>,
    text |-> <<"L", "a", "p", "s", "e", " ", "S", "e", "v", "e", "r", "i", "t", "y", " ", "S", "c", "o", "r", "e", ":", " ", "3">>, severity_score |-> NoScore],
   [kind |-> "npa", filename |-> <<"C", "O", "N", "V", "I", "C", "T", "E", "D", "_", "2", ".", "j", "s", "o", "n">>, legal |-> <<>>,
    text |-> <<>>, severity_score |-> IntScore(5)],
   [kind |-> "npa", filename |-> <<"3", ".", "j", "s", "o", "n">>, legal |-> <<>>,
    text |-> <<>>, severity_score |-> StrScore]}
Batches == UNION {[1..n -> BatchDocs] : n \in 0..MaxBatchDocs}

InitBatch ==
  /\ doc_in \in {[docs |-> b] : b \in Batches}
  /\ doc_out = [op |-> "none"]
  /\ OthersIdle

\* load_analysis_list over the readable documents of the directories
ListBatch ==
  /\ doc_out.op = "none"
  /\ doc_out' = BatchOf(doc_in.docs)
  /\ UNCHANGED <<now_year, authVars, dateVars, ledgerVars, loaderVars, doc_in>>

NextBatch == ListBatch
SpecBatch == InitBatch /\ [][NextBatch]_vars
---------------------------------------------------------------------------
\* One stored row, read through the Case model and through the SQL expressions

RowDates == {None, <<>>, <<"0", "3", "-", "1", "0", "-", "2", "0", "2", "5">>, <<"N", "o", "t", " ", "S", "p", "e", "c", "i", "f", "i", "e", "d">>, <<"D", "a", "t", "e", " ", "u", "n", "k", "n", "o", "w", "n">>}
RowSentences ==
  {None, <<>>, <<"A", "c", "q", "u", "i", "t", "t", "e", "d">>, <<"C", "o", "n", "v", "i", "c", "t", "e", "d", " ", "u", "/", "s", " ", "3", "0", "2", " ", "I", "P", "C">>, <<"N", "o", "t", " ", "g", "u", "i", "l", "t", "y">>, <<"A", "p", "p", "e", "a", "l", " ", "d", "i", "s", "m", "i", "s", "s", "e", "d">>,
   <<"N", "o", "t", " ", "s", "p", "e", "c", "i", "f", "i", "e", "d">>, <<"N", "o", "t", " ", "m", "e", "n", "t", "i", "o", "n", "e", "d", " ", "i", "n", " ", "t", "h", "e", " ", "j", "u", "d", "g", "m", "e", "n", "t">>, <<"A", "c", "q", "u", "i", "t", "t", "e", "d", ";", " ", "f", "i", "n", "e", " ", "u", "n", "k", "n", "o", "w", "n">>, <<"F", "i", "n", "e", " ", "o", "f", " ", "R", "s", ".", " ", "5", "0", "0">>}
RowSummaries ==
  {None, <<>>, <<"T", "h", "e", " ", "a", "c", "c", "u", "s", "e", "d", " ", "w", "a", "s", " ", "a", "c", "q", "u", "i", "t", "t", "e", "d", ".">>, <<"C", "o", "n", "v", "i", "c", "t", "i", "o", "n", " ", "u", "p", "h", "e", "l", "d", ".">>, <<"P", "e", "t", "i", "t", "i", "o", "n", " ", "d", "i", "s", "m", "i", "s", "s", "e", "d", ".">>, <<"H", "e", "a", "r", "i", "n", "g", " ", "h", "e", "l", "d", ".">>}
StoredRows == [date : RowDates, sentence_issued : RowSentences, summary : RowSummaries]

InitVerdict ==
  /\ doc_in \in StoredRows
  /\ doc_out = [op |-> "none"]
  /\ OthersIdle

\* Case(**dict(row)).verdict and .is_active
CaseProperties ==
  /\ doc_out.op = "none"
  /\ doc_out' = [op |-> "case", verdict |-> verdict(doc_in), active |-> is_active(doc_in)]
  /\ UNCHANGED <<now_year, authVars, dateVars, ledgerVars, loaderVars, doc_in>>
\* SELECT VERDICT_SQL, IS_ACTIVE_SQL of the row
SelectVerdict ==
  /\ doc_out.op = "none"
  /\ doc_out' = [op |-> "sql", verdict |-> VERDICT_SQL(doc_in), active |-> IS_ACTIVE_SQL(doc_in)]
  /\ UNCHANGED <<now_year, authVars, dateVars, ledgerVars, loaderVars, doc_in>>

NextVerdict == CaseProperties \/ SelectVerdict
SpecVerdict == InitVerdict /\ [][NextVerdict]_vars
---------------------------------------------------------------------------
\* The login gate and the settings routes (main.py: auth_middleware,
\* login_submit, logout, settings_change_password, settings_change_username)
\* over the credential file. A route handler has no await between its load and
\* its save of the file, so a request is one step here.

UserNames == {<<"a", "d", "m", "i", "n">>, <<"b", "o", "b">>, <<"r", "o", "o", "t">>, <<"a", "l">>, <<>>}
Passwords == {<<"a", "d", "m", "i", "n", "1", "2", "3">>, <<"s", "e", "c", "r", "e", "t", "9">>, <<"f", "o", "u", "r">>, <<>>}
Pages == {<<"/">>, <<"/", "s", "e", "t", "t", "i", "n", "g", "s">>, <<"/", "a", "n", "a", "l", "y", "s", "i", "s", "/", "x">>, <<"/", "s", "t", "a", "t", "i", "c", "/", "a", "p", "p", ".", "c", "s", "s">>, <<"/", "l", "o", "g", "i", "n">>, <<"/", "l", "o", "g", "i", "n", "x">>}
Account(username, password, display_name) ==
  [k |-> username, v |-> [password_hash |-> hash_password(password), display_name |-> display_name]]
\* the credential file at start: none, the default one, or one the operator
\* has written with two accounts
CredentialFiles ==
  {[exists |-> FALSE, creds |-> <<>>],
   Saved(DefaultCredentials),
   Saved(<<Account(<<"a", "d", "m", "i", "n">>, <<"a", "d", "m", "i", "n", "1", "2", "3">>, <<"A", "d", "m", "i", "n", "i", "s", "t", "r", "a", "t", "o", "r">>), Account(<<"b", "o", "b">>, <<"s", "e", "c", "r", "e", "t", "9">>, <<"B", "o", "b">>)>>)}

\* auth_middleware: whether the request is handed on
public_paths == <<<<"/", "l", "o", "g", "i", "n">>, <<"/", "s", "t", "a", "t", "i", "c">>>>
IsPublic(path) == \E i \in 1..Len(public_paths) : startswith(path, public_paths[i])
OpenMiddleware(path, authenticated) == TRUE
auth_middleware(path, authenticated) == IsPublic(path) \/ authenticated
Redirected(method, path) ==
  [method |-> method, path |-> path, handler |-> "none", status |-> "redirect /login"]
Handled(method, path, handler, status) ==
  [method |-> method, path |-> path, handler |-> handler, status |-> status]
\* a handled request with the fields of its form
Submitted(path, handler, status, form) ==
  [method |-> "POST", path |-> path, handler |-> handler, status |-> status, form |-> form]

DocsIdle == UNCHANGED <<now_year, dateVars, ledgerVars, loaderVars, docVars>>
InitAuth ==
  /\ credentials \in CredentialFiles
  /\ session = NoSession
  /\ response = NoResponse
  /\ calls = <<>>
  /\ now_year \in NowYears /\ DateIdle /\ LedgerIdle /\ LoaderIdle /\ DocIdle

\* GET of a page that changes nothing
PageRequest ==
  \E path \in Pages :
    /\ response' = IF auth_middleware(path, session.authenticated)
                     THEN Handled("GET", path, "page", "passed")
                   ELSE Redirected("GET", path)
    /\ UNCHANGED <<credentials, session, calls>>
    /\ DocsIdle
\* POST /login
LoginOf(file, username) ==
  [authenticated |-> TRUE, username |-> username, display_name |-> get_display_name(file, username)]
LoginSubmit ==
  \E username \in UserNames, password \in Passwords :
    /\ auth_middleware(<<"/", "l", "o", "g", "i", "n">>, session.authenticated)
    /\ credentials' = AfterAuthenticate(credentials, username, password)
    /\ session' = IF authenticate_user(credentials, username, password)
                    THEN LoginOf(credentials, username)
                  ELSE session
    /\ response' = Handled("POST", <<"/", "l", "o", "g", "i", "n">>, "login_submit",
                           IF authenticate_user(credentials, username, password)
                             THEN "redirect /" ELSE "invalid")
    /\ UNCHANGED calls
    /\ DocsIdle
\* GET /logout
Logout ==
  /\ session' = IF auth_middleware(<<"/", "l", "o", "g", "o", "u", "t">>, session.authenticated) THEN NoSession ELSE session
  /\ response' = IF auth_middleware(<<"/", "l", "o", "g", "o", "u", "t">>, session.authenticated)
                   THEN Handled("GET", <<"/", "l", "o", "g", "o", "u", "t">>, "logout", "redirect /login")
                 ELSE Redirected("GET", <<"/", "l", "o", "g", "o", "u", "t">>)
  /\ UNCHANGED <<credentials, calls>>
  /\ DocsIdle
\* POST /settings/change-password
SettingsChangePassword ==
  \E current_password \in Passwords, new_password \in Passwords, confirm_password \in Passwords :
    /\ credentials' =
         IF auth_middleware(<<"/", "s", "e", "t", "t", "i", "n", "g", "s", "/", "c", "h", "a", "n", "g", "e", "-", "p", "a", "s", "s", "w", "o", "r", "d">>, session.authenticated)
            /\ new_password = confirm_password
           THEN FileAfter(credentials,
                          change_password(credentials, session.username, current_password, new_password))
         ELSE credentials
    /\ response' =
         IF ~auth_middleware(<<"/", "s", "e", "t", "t", "i", "n", "g", "s", "/", "c", "h", "a", "n", "g", "e", "-", "p", "a", "s", "s", "w", "o", "r", "d">>, session.authenticated)
           THEN Redirected("POST", <<"/", "s", "e", "t", "t", "i", "n", "g", "s", "/", "c", "h", "a", "n", "g", "e", "-", "p", "a", "s", "s", "w", "o", "r", "d">>)
         ELSE Submitted(<<"/", "s", "e", "t", "t", "i", "n", "g", "s", "/", "c", "h", "a", "n", "g", "e", "-", "p", "a", "s", "s", "w", "o", "r", "d">>, "settings_change_password",
                        IF new_password = confirm_password
                          THEN change_password(credentials, session.username, current_password, new_password).message
                        ELSE "New passwords do not match.",
                        [username |-> session.username, current_password |-> current_password,
                         new_password |-> new_password, confirm_password |-> confirm_password])
    /\ UNCHANGED <<session, calls>>
    /\ DocsIdle
\* POST /settings/change-username
RenamedSession(attempt, new_username) ==
  IF attempt.ok
    THEN [session EXCEPT !.username = new_username,
                         !.display_name = get_display_name(Saved(attempt.copy), new_username)]
  ELSE session
SettingsChangeUsername ==
  \E new_username \in UserNames, password \in Passwords :
    /\ credentials' =
         IF auth_middleware(<<"/", "s", "e", "t", "t", "i", "n", "g", "s", "/", "c", "h", "a", "n", "g", "e", "-", "u", "s", "e", "r", "n", "a", "m", "e">>, session.authenticated)
           THEN FileAfter(credentials,
                          change_username(credentials, session.username, new_username, password))
         ELSE credentials
    /\ session' =
         IF auth_middleware(<<"/", "s", "e", "t", "t", "i", "n", "g", "s", "/", "c", "h", "a", "n", "g", "e", "-", "u", "s", "e", "r", "n", "a", "m", "e">>, session.authenticated)
           THEN RenamedSession(change_username(credentials, session.username, new_username, password),
                               new_username)
         ELSE session
    /\ response' =
         IF ~auth_middleware(<<"/", "s", "e", "t", "t", "i", "n", "g", "s", "/", "c", "h", "a", "n", "g", "e", "-", "u", "s", "e", "r", "n", "a", "m", "e">>, session.authenticated)
           THEN Redirected("POST", <<"/", "s", "e", "t", "t", "i", "n", "g", "s", "/", "c", "h", "a", "n", "g", "e", "-", "u", "s", "e", "r", "n", "a", "m", "e">>)
         ELSE Submitted(<<"/", "s", "e", "t", "t", "i", "n", "g", "s", "/", "c", "h", "a", "n", "g", "e", "-", "u", "s", "e", "r", "n", "a", "m", "e">>, "settings_change_username",
                        change_username(credentials, session.username, new_username, password).message,
                        [current_username |-> session.username, new_username |-> new_username,
                         password |-> password])
    /\ UNCHANGED calls
    /\ DocsIdle

NextAuth ==
  \/ PageRequest
  \/ LoginSubmit
  \/ Logout
  \/ SettingsChangePassword
  \/ SettingsChangeUsername
SpecAuth == InitAuth /\ [][NextAuth]_vars
---------------------------------------------------------------------------
\* The ledger over several calls: init_db and load_from_json in any order,
\* each with an export of one or two items

MaxLedgerRows == 2
RepeatCornos == {<<"C", "C", " ", "1", "2", "/", "2", "0", "2", "4">>, <<"[", "c", "a", "s", "e", " ", "n", "u", "m", "b", "e", "r", "]">>}
\* district and date of an item: a stored one, an excluded one, and one whose
\* date is a number (parse_date raises on it)
Plain == [district |-> <<"H", "y", "d", "e", "r", "a", "b", "a", "d">>, date |-> <<"0", "3", "-", "1", "0", "-", "2", "0", "2", "5">>]
Excluded == [district |-> <<"L", "u", "c", "k", "N", "o", "w">>, date |-> <<"0", "3", "-", "1", "0", "-", "2", "0", "2", "5">>]
Raising == [district |-> <<"H", "y", "d", "e", "r", "a", "b", "a", "d">>, date |-> Number]
ItemOf(corno, fields) == [corno |-> corno, district |-> fields.district, date |-> fields.date]
RepeatItems ==
  {ItemOf(c, f) : c \in RepeatCornos, f \in {Plain, Excluded, Raising}} \cup {ItemOf(None, Plain)}
\* the second item of an export of two
SecondItems == {ItemOf(<<" ", "C", "C", " ", "1", "2", "/", "2", "0", "2", "4">>, Plain), ItemOf(<<"C", "C", " ", "1", "2", "/", "2", "0", "2", "4">>, Raising)}
SingleExports == {<<a>> : a \in RepeatItems}
RepeatExports == SingleExports \cup {<<a, b>> : a \in RepeatItems, b \in SecondItems}

InitLedger ==
  /\ now_year \in NowYears
  /\ data = <<>> /\ cases = <<>> /\ db_op = [name |-> "none", n |-> 0, raised |-> FALSE] /\ migrations = 0
  /\ DateIdle /\ LoaderIdle /\ DocIdle /\ AuthIdle

\* load_from_json(export): the rows and the count, or the exception
LoadAgain ==
  \E export \in RepeatExports :
    /\ Len(cases) < MaxLedgerRows
    /\ data' = export
    /\ Loaded(load_from_json(export, cases, now_year))
    /\ UNCHANGED <<now_year, authVars, migrations, dateVars, loaderVars, docVars>>
\* init_db() with cases.json holding the items of export: they are loaded
\* when the table is empty
InitDbAgain ==
  \E export \in SingleExports :
    /\ Len(cases) < MaxLedgerRows
    /\ data' = export
    /\ cases' = IF cases = <<>> THEN load_initial_data(export, 1, cases) ELSE cases
    /\ db_op' = [name |-> "init_db", n |-> IF cases = <<>> THEN Len(export) ELSE 0, raised |-> FALSE]
    /\ UNCHANGED <<now_year, authVars, migrations, dateVars, loaderVars, docVars>>

NextLedger == LoadAgain \/ InitDbAgain
SpecLedger == InitLedger /\ [][NextLedger]_vars
---------------------------------------------------------------------------
\* Two calls of change_password / change_username for different accounts
\* under way at once (two server processes over one credential file): each
\* call reads the file, changes its copy and writes the copy back

NewPasswords == {<<"l", "e", "t", "m", "e", "i", "n", "1">>, <<"f", "o", "u", "r">>}
\* the calls for the account admin and those for the account bob
CallsFor(username, password) ==
  {[op |-> "change_password", username |-> username, password |-> pw, new |-> new]
     : pw \in {password, <<"w", "r", "o", "n", "g", "0", "0">>}, new \in NewPasswords}
  \cup
  {[op |-> "change_username", username |-> username, password |-> pw, new |-> new]
     : pw \in {password, <<"w", "r", "o", "n", "g", "0", "0">>}, new \in {username \o <<"2">>, <<"a", "l">>}}
Started(call) == [call |-> call, pc |-> "start", ok |-> FALSE, copy |-> <<>>]
TwoAccounts ==
  Saved(<<Account(<<"a", "d", "m", "i", "n">>, <<"a", "d", "m", "i", "n", "1", "2", "3">>, <<"A", "d", "m", "i", "n", "i", "s", "t", "r", "a", "t", "o", "r">>), Account(<<"b", "o", "b">>, <<"s", "e", "c", "r", "e", "t", "9">>, <<"B", "o", "b">>)>>)

InitCreds ==
  /\ credentials = TwoAccounts
  /\ calls \in {<<Started(a), Started(b)>> :
                  a \in CallsFor(<<"a", "d", "m", "i", "n">>, <<"a", "d", "m", "i", "n", "1", "2", "3">>), b \in CallsFor(<<"b", "o", "b">>, <<"s", "e", "c", "r", "e", "t", "9">>)}
  /\ session = NoSession
  /\ response = NoResponse
  /\ now_year \in NowYears /\ DateIdle /\ LedgerIdle /\ LoaderIdle /\ DocIdle

AttemptOf(creds, call) ==
  IF call.op = "change_password"
    THEN PasswordAttempt(creds, call.username, call.password, call.new)
  ELSE UsernameAttempt(creds, call.username, call.new, call.password)
\* the call up to its _save_credentials: the tests, _load_credentials, the
\* check of the password and the change of the copy
CallLoads ==
  \E p \in 1..Len(calls) :
    /\ calls[p].pc = "start"
    /\ calls' = [calls EXCEPT ![p].pc = IF AttemptOf(load_credentials(credentials), calls[p].call).ok
                                          THEN "loaded" ELSE "done",
                              ![p].copy = AttemptOf(load_credentials(credentials), calls[p].call).copy]
    /\ UNCHANGED <<credentials, session, response>>
    /\ DocsIdle
\* _save_credentials(creds) and the return of (True, message)
CallSaves ==
  \E p \in 1..Len(calls) :
    /\ calls[p].pc = "loaded"
    /\ credentials' = Saved(calls[p].copy)
    /\ calls' = [calls EXCEPT ![p].pc = "done", ![p].ok = TRUE]
    /\ UNCHANGED <<session, response>>
    /\ DocsIdle

NextCreds == CallLoads \/ CallSaves
SpecCreds == InitCreds /\ [][NextCreds]_vars

---------------------------------------------------------------------------
\* Properties of the document loader (specification Spec)

\* the documents the list view scans: what its three globs match
Scanned(files) ==
  glob(files, ANALYSIS_DIR, <<"_", "a", "n", "a", "l", "y", "s", "i", "s", ".", "m", "d">>) \cup glob(files, ANALYSIS_DIR, <<".", "j", "s", "o", "n">>)
    \cup glob(files, NPA_ANALYSIS_DIR, <<".", "j", "s", "o", "n">>)

\* a document that is neither unreadable nor malformed
WellFormed(f) == f.body \in {"text", "object"}

\* C1: load_analysis_list is never aborted by one bad document. Whatever the
\* files are, the call does not raise, and every scanned document that is
\* readable and well formed appears in the analyses it returns, the bad ones
\* being skipped.
C1_BatchNeverAborted ==
  listing.called =>
    /\ ~listing.raised
    /\ \A f \in Scanned(fs) :
         WellFormed(f) =>
           \E i \in DOMAIN listing.analyses : listing.analyses[i].path = [dir |-> f.dir, name |-> f.name]

\* C2: slug round trip. For every document the list view emits with slug s,
\* load_analysis_detail(s) resolves to the backing file that entry was
\* generated from, so no slug resolves to a document of another kind.
C2_SlugRoundTrip ==
  (listing.called /\ ~listing.raised /\ detail.outcome # "none") =>
    \A i \in DOMAIN listing.analyses :
      listing.analyses[i].slug = detail.slug => detail.path = listing.analyses[i].path

\* C3: detail lookup never raises. For every slug and every content of the
\* backing file load_analysis_detail returns a record or "not found".
C3_DetailNeverRaises == detail.outcome \in {"none", "record", "not_found"}

---------------------------------------------------------------------------
\* Properties of parse_date (specification SpecDate)

\* C4: parse_date never returns a date whose year is greater than the current
\* year + 1. Whatever it returns is either None or a valid calendar date
\* with year <= current year + 1.
C4_NoFarFutureDate ==
  pd_result # NoDate =>
    /\ datetime(pd_result.y, pd_result.m, pd_result.d) = pd_result
    /\ pd_result.y <= now_year + 1

\* parse_date has returned a date of the last year it accepts
C4_Witness == pd_pc = "done" /\ pd_result # NoDate /\ pd_result.y = now_year + 1

\* C5, as the specification words it: once a strategy's candidate is rejected for its
\* year, parse_date returns at that point, so the rejecting strategy is the
\* last one attempted.
C5_ReturnsAtRejection ==
  pd_rejected # 0 => (pd_pc = "done" /\ pd_tried[Len(pd_tried)] = pd_rejected)

\* C5, amended: once a strategy's candidate is rejected for its year,
\* parse_date ends with no result for that input, but only after every
\* remaining strict pattern and the verbose extractor have been attempted.
C5_RejectedYieldsNone ==
  (pd_pc = "done" /\ pd_rejected # 0) =>
    /\ pd_result = NoDate
    /\ pd_tried = [k \in 1..VERBOSE |-> k]

\* a strict pattern rejected its candidate and parse_date went on to the end
C5_Witness ==
  /\ pd_pc = "done" /\ pd_rejected \in 1..Len(formats)
  /\ Len(pd_tried) = VERBOSE /\ pd_result = NoDate

\* C6: the verbose extractor recovers the date of the prose example:
\* parse_date("Thursday, this the 09 day of October, 2025.") returns
\* 2025-10-09.
C6_VerboseExample ==
  (pd_pc = "done" /\ date_str = <<"T", "h", "u", "r", "s", "d", "a", "y", ",", " ", "t", "h", "i", "s", " ", "t", "h", "e", " ", "0", "9", " ", "d", "a", "y", " ", "o", "f", " ", "O", "c", "t", "o", "b", "e", "r", ",", " ", "2", "0", "2", "5", ".">>) =>
    pd_result = [y |-> 2025, m |-> 10, d |-> 9]

\* C7: parse_date never raises to its caller, whatever value it is given.
C7_ParseDateNeverRaises == pd_raised = FALSE

---------------------------------------------------------------------------
\* Properties of normalize_district and the ledger (specification SpecDistrict)

\* the district text of the record being loaded
RawDistrict == data[1].district

\* the lower-cased text holds one of the Ranga Reddy aliases
HasRangaReddyAlias(x) == \E a \in DistrictRules[1].subs : Contains(lower(x), a)

\* C8: normalize_district is idempotent. A district name that load_from_json
\* or migrate_districts stored, which is an output of normalize_district,
\* maps to itself, and a second run of migrate_districts changes no row of a
\* record whose district normalizes to a name.
C8_NormalizeIdempotent ==
  /\ \A i \in DOMAIN cases :
       (db_op.name \in {"load_from_json", "migrate_districts"} /\ cases[i].district # None) =>
         normalize_district(cases[i].district) = cases[i].district
  /\ (db_op.name = "migrate_districts" /\ migrations >= 2 /\ normalize_district(RawDistrict) # None) =>
       db_op.n = 0

\* C9, as the specification words it: every text that contains "lucknow" in any
\* letter case normalizes to None, and load_from_json stores no row for it.
C9_LucknowAlwaysExcluded ==
  (RawDistrict # None /\ Contains(lower(RawDistrict), <<"l", "u", "c", "k", "n", "o", "w">>)) =>
    /\ normalize_district(RawDistrict) = None
    /\ db_op.name = "load_from_json" => cases = <<>>

\* C9, amended: every text that contains "lucknow" in any letter case and
\* none of the Ranga Reddy aliases, which are tested first, normalizes to
\* None, which is not "Unknown", and load_from_json stores no row for it.
C9_LucknowExcludedUnlessRangaReddy ==
  (RawDistrict # None /\ Contains(lower(RawDistrict), <<"l", "u", "c", "k", "n", "o", "w">>) /\ ~HasRangaReddyAlias(RawDistrict)) =>
    /\ normalize_district(RawDistrict) = None
    /\ normalize_district(RawDistrict) # <<"U", "n", "k", "n", "o", "w", "n">>
    /\ db_op.name = "load_from_json" => (cases = <<>> /\ db_op.n = 0)

\* a record with a case number and a mixed-case "LuckNow" district went
\* through load_from_json
C9_Witness ==
  /\ db_op.name = "load_from_json" /\ ~db_op.raised
  /\ ~IsPlaceholderCorno(clean_text(data[1].corno))
  /\ RawDistrict # None /\ Contains(RawDistrict, <<"L", "u", "c", "k", "N", "o", "w">>) /\ ~HasRangaReddyAlias(RawDistrict)
  /\ cases = <<>>

\* C10: the Ranga Reddy aliases are tested first. Every text whose lower-cased
\* form contains a Ranga Reddy alias normalizes to exactly "Ranga Reddy",
\* whatever other rule it matches, and that is the district load_from_json
\* stores.
C10_RangaReddyFirst ==
  (RawDistrict # None /\ HasRangaReddyAlias(RawDistrict)) =>
    /\ normalize_district(RawDistrict) = <<"R", "a", "n", "g", "a", " ", "R", "e", "d", "d", "y">>
    /\ (db_op.name = "load_from_json" /\ cases # <<>>) => cases[1].district = <<"R", "a", "n", "g", "a", " ", "R", "e", "d", "d", "y">>

\* a text that matches the Ranga Reddy rule and a later rule was stored
C10_Witness ==
  /\ db_op.name = "load_from_json" /\ cases # <<>>
  /\ RawDistrict # None /\ HasRangaReddyAlias(RawDistrict)
  /\ Cardinality(RulesHit(lower(strip(RawDistrict)))) >= 2
  /\ cases[1].district = <<"R", "a", "n", "g", "a", " ", "R", "e", "d", "d", "y">>

\* C11: a stored case never has a null district. In every state reached by
\* init_db, load_from_json and migrate_districts each row of the cases table
\* holds a district that is not None.
C11_NoNullDistrict == \A i \in DOMAIN cases : cases[i].district # None


---------------------------------------------------------------------------
\* Severity score (SpecSeverity)

\* the audit content and the embedded score the view that ran started from
SeverityContent == AuditSection(doc_in).content
SeverityEmbedded ==
  GetOr(AuditSection(doc_in), IF doc_out.op = "list" THEN NoScore ELSE IntScore(0))
\* the embedded score keeps the last-line fallback from running
EmbeddedWins ==
  IF doc_out.op = "list" THEN SeverityEmbedded.t # "none" ELSE ~Falsy(SeverityEmbedded)
DepartmentThenOverall ==
  join(NL, <<<<"P", "o", "l", "i", "c", "e", " ", "S", "c", "o", "r", "e", ":", " ", "4">>, <<"#", "#", "#", " ", "O", "v", "e", "r", "a", "l", "l", " ", "L", "a", "p", "s", "e", " ", "S", "e", "v", "e", "r", "i", "t", "y", " ", "S", "c", "o", "r", "e">>, <<"*", "*", "S", "c", "o", "r", "e", ":", " ", "7", "*", "*">>>>)

\* C12, as the specification words it: the severity score of either view is
\* the score after the "Overall Lapse Severity Score" heading, else the first
\* "Lapse Severity Score: N", else the last line matching "...Score: N".
C12_ContentPriority ==
  (doc_out.op # "none" /\ SeverityContent # <<>>) =>
    doc_out.severity = ContentOnlyChain(SeverityContent, overall_match(SeverityContent),
                                        lapse_match(SeverityContent), SeverityEmbedded, TRUE)

\* C12, amended: the priority has four steps. The overall score wins, else
\* the first lapse score, else the score embedded in the section record (any
\* value but None in the list view, any truthy value in the detail view), and
\* only then the last line matching "...Score: N". A department "Score: 4"
\* followed by the overall heading and "**Score: 7**" yields 7 in both views
\* whatever score is embedded.
C12_Priority ==
  (doc_out.op # "none" /\ SeverityContent # <<>>) =>
    /\ overall_match(SeverityContent) # {} =>
         doc_out.severity = IntScore(BoldScoreAt(SeverityContent, First(overall_match(SeverityContent))))
    /\ (overall_match(SeverityContent) = {} /\ lapse_match(SeverityContent) # {}) =>
         doc_out.severity = IntScore(LapseScoreAt(SeverityContent, First(lapse_match(SeverityContent))))
    /\ (overall_match(SeverityContent) = {} /\ lapse_match(SeverityContent) = {} /\ EmbeddedWins) =>
         doc_out.severity = SeverityEmbedded
    /\ (overall_match(SeverityContent) = {} /\ lapse_match(SeverityContent) = {} /\ ~EmbeddedWins
          /\ all_scores(SeverityContent) # <<>>) =>
         doc_out.severity = IntScore(all_scores(SeverityContent)[Len(all_scores(SeverityContent))])
    /\ SeverityContent = DepartmentThenOverall => doc_out.severity = IntScore(7)

\* the detail view of a JSON export with the department score, the overall
\* heading and an embedded score of 5 has answered 7
C12_Witness ==
  /\ doc_in = [kind |-> "json", text |-> DepartmentThenOverall, severity_score |-> IntScore(5)]
  /\ doc_out = [op |-> "detail", severity |-> IntScore(7)]

\* C13: a severity score carried by a list or detail record is an integer in
\* the range 0..10.
C13_ScoreInRange ==
  (doc_out.op # "none" /\ doc_out.severity.t # "none") =>
    (doc_out.severity.t = "int" /\ doc_out.severity.v \in 0..10)

---------------------------------------------------------------------------
\* Markdown tables (SpecTable)

\* the pipe-led lines of the text that was parsed and its header names as the
\* rows are keyed by them
ParsedLines == table_lines(strip_code_fences(doc_in.text))
ParsedHeaders == StripAll(Headers(ParsedLines[1]))
NamesOf(headers) == {headers[i] : i \in 1..Len(headers)}
KeySet(d) == {d[j].k : j \in 1..Len(d)}
\* the i-th cell of a data line, empty when the line has no such cell
CellOf(cols, i) == IF i <= Len(cols) THEN cols[i] ELSE <<>>
\* the column a header name stands for: the last one that carries the name
ColumnOf(headers, name) ==
  CHOOSE i \in 1..Len(headers) : headers[i] = name /\ \A j \in (i + 1)..Len(headers) : headers[j] # name
\* the cells of the data lines
DataCells(lines) == [n \in 1..(Len(lines) - 2) |-> Cells(lines[n + 2])]
TableParsed == doc_out.op = "parse_markdown_table" /\ Len(ParsedLines) >= 3
FieldHeader(headers) == lower(headers[1]) \in {<<"f", "i", "e", "l", "d">>, <<"m", "e", "t", "a", "d", "a", "t", "a", " ", "f", "i", "e", "l", "d">>}
Horizontal(headers) == ~(Len(headers) >= 2 /\ FieldHeader(headers))

RowKeepsWidth(row, cols, headers, names) ==
  /\ KeySet(row) = names
  /\ Len(row) <= Len(headers)
  /\ \A name \in names : Get(row, name) = CellOf(cols, ColumnOf(headers, name))
RowsKeepWidth(rows, cells, headers) ==
  /\ Len(rows) = Len(cells)
  /\ \A n \in 1..Len(rows) : RowKeepsWidth(rows[n], cells[n], headers, NamesOf(headers))

\* C14: parse_markdown_table keeps rows at header width. With three pipe-led
\* lines or more, a horizontal table gives one row per data line in document
\* order; the keys of every row are exactly the header names; a line with
\* fewer cells than headers is padded with empty strings and the cells beyond
\* the header count are dropped.
C14_RowsAtHeaderWidth ==
  (TableParsed /\ Horizontal(ParsedHeaders)) =>
    RowsKeepWidth(doc_out.rows, DataCells(ParsedLines), ParsedHeaders)

\* a two-column table whose first data line has four cells and whose second
\* data line has one cell has been parsed into two rows of two keys
C14_Witness ==
  /\ doc_in.text = join(NL, <<<<"|", " ", "C", "o", "u", "r", "t", " ", "|", " ", "J", "u", "d", "g", "e", " ", "|">>, SeparatorLine, <<"|", " ", " ", "c", "o", "u", "r", "t", " ", "|", " ", "S", "C", " ", "|", " ", "x", " ", "|", " ", "y", " ", "|">>, <<"|", " ", "J", "u", "d", "g", "e", " ", "|">>>>)
  /\ doc_out.op = "parse_markdown_table"
  /\ doc_out.rows = << <<[k |-> <<"C", "o", "u", "r", "t">>, v |-> <<"c", "o", "u", "r", "t">>], [k |-> <<"J", "u", "d", "g", "e">>, v |-> <<"S", "C">>]>>,
                       <<[k |-> <<"C", "o", "u", "r", "t">>, v |-> <<"J", "u", "d", "g", "e">>], [k |-> <<"J", "u", "d", "g", "e">>, v |-> <<>>]>> >>

\* the names the data lines put in a column, lower-cased and trimmed
FieldNames(cells, col) == [n \in 1..Len(cells) |-> strip(lower(CellOf(cells[n], col)))]
\* the last data line that carries a name
LastNamed(names, name) ==
  CHOOSE n \in 1..Len(names) : names[n] = name /\ \A m \in (n + 1)..Len(names) : names[m] # name
\* mapping is the one dict from the names of the data lines to the cells of
\* the column col, the last line of a name winning
IsMapping(mapping, names, cells, col) ==
  /\ KeySet(mapping) = NamesOf(names)
  /\ \A j \in 1..Len(mapping) : mapping[j].v = CellOf(cells[LastNamed(names, mapping[j].k)], col)
SecondName(headers) == headers[First({i \in 1..Len(headers) : headers[i] # headers[1]})]

ClaimedTable(rows, cells, headers) ==
  IF FieldHeader(headers)
    THEN Len(rows) = 1 /\ IsMapping(rows[1], FieldNames(cells, 1), cells, 2)
  ELSE Len(rows) = Len(cells)
VerticalTable(rows, cells, headers) ==
  IF Horizontal(headers) THEN Len(rows) = Len(cells)
  ELSE IF Cardinality(NamesOf(headers)) < 2 THEN rows = <<>>
  ELSE Len(rows) = 1 /\ IsMapping(rows[1], FieldNames(cells, ColumnOf(headers, headers[1])), cells,
                                   ColumnOf(headers, SecondName(headers)))

\* C15, as the specification words it: a table whose first header is "field"
\* or "metadata field" in any letter case is parsed into a single mapping from
\* each lower-cased, trimmed first-column value to its second-column value;
\* any other first header yields the row sequence.
C15_FieldHeaderIsVertical ==
  TableParsed => ClaimedTable(doc_out.rows, DataCells(ParsedLines), ParsedHeaders)

\* C15, amended: the table is vertical when it has two header cells or more
\* and the first, without bold markers and colons, is "field" or "metadata
\* field" in any letter case. With two distinct header names or more the result
\* is a single mapping from the lower-cased, trimmed value each data line has
\* under the first name to the value it has under the second distinct name (the
\* last column of that name), the last line of a field name winning; with one
\* distinct name the result is empty. Every other table, the one-column
\* "Field" table included, yields the row sequence.
C15_Vertical ==
  TableParsed => VerticalTable(doc_out.rows, DataCells(ParsedLines), ParsedHeaders)

\* a "Field | Value" table with the field name court on two data lines has
\* been parsed into one mapping that holds the value of the later line
C15_Witness ==
  /\ doc_in.text = join(NL, <<<<"|", " ", "F", "i", "e", "l", "d", " ", "|", " ", "V", "a", "l", "u", "e", " ", "|">>, SeparatorLine, <<"|", " ", "C", "o", "u", "r", "t", " ", "|", " ", "*", "*", "H", "C", "*", "*", " ", "|">>, <<"|", " ", " ", "c", "o", "u", "r", "t", " ", "|", " ", "S", "C", " ", "|", " ", "x", " ", "|", " ", "y", " ", "|">>>>)
  /\ doc_out.op = "parse_markdown_table"
  /\ doc_out.rows = << <<[k |-> <<"c", "o", "u", "r", "t">>, v |-> <<"S", "C">>]>> >>

---------------------------------------------------------------------------
\* Metadata (SpecMetadata)

RichSummary == <<"H", "e", "a", "r", "d", " ", "b", "y", " ", "t", "h", "e", " ", "S", "e", "s", "s", "i", "o", "n", "s", " ", "C", "o", "u", "r", "t", " ", "a", "t", " ", "5", " ", "p", "m", ".", " ", "S", "C", " ", "N", "o", ".", " ", "1", "2", " ", "o", "f", " ", "2", "0", "2", "0", ".", " ", "S", "t", "a", "t", "e", " ", "o", "f", " ", "A", "P", " ", "v", "s", " ", "R", "a", "v", "i", " ", "K", "u", "m", "a", "r", ",", " ", "x">>
\* the record holds the fields of the normalizer and nothing else
OnlyNormalized(metadata, norm) ==
  /\ KeySet(metadata) = KeySet(norm)
  /\ \A f \in KeySet(norm) : Get(metadata, f) = Get(norm, f)
MetadataFrom(metadata, norm, fallback) ==
  IF norm = <<>> THEN metadata = fallback ELSE OnlyNormalized(metadata, norm)
\* the same for the fields of a list entry: the date is the natural date, else
\* the ISO date, and a field the source lacks is empty
FieldFrom(value, source, f) == value = (IF HasKey(source, f) THEN Get(source, f) ELSE <<>>)
DateFrom(value, source) ==
  value = (IF HasKey(source, <<"d", "a", "t", "e", "_", "n", "a", "t", "u", "r", "a", "l">>) THEN Get(source, <<"d", "a", "t", "e", "_", "n", "a", "t", "u", "r", "a", "l">>)
           ELSE IF HasKey(source, <<"d", "a", "t", "e", "_", "i", "s", "o">>) THEN Get(source, <<"d", "a", "t", "e", "_", "i", "s", "o">>) ELSE <<>>)
FieldsOf(fields, source) ==
  /\ FieldFrom(fields.court, source, <<"c", "o", "u", "r", "t">>)
  /\ FieldFrom(fields.judge, source, <<"j", "u", "d", "g", "e">>)
  /\ FieldFrom(fields.case_number, source, <<"c", "a", "s", "e", "_", "n", "u", "m", "b", "e", "r">>)
  /\ FieldFrom(fields.parties, source, <<"p", "a", "r", "t", "i", "e", "s">>)
  /\ DateFrom(fields.date, source)
FieldsFrom(fields, norm, fallback) ==
  IF norm = <<>> THEN FieldsOf(fields, fallback) ELSE FieldsOf(fields, norm)

\* C16: the fallback metadata extractor runs if and only if the normalizer
\* produced no field. In the list view and in the detail view of either kind of
\* document the metadata is what the fallback extracts when the normalized
\* table is empty, and holds the normalizer's fields and no fallback-derived
\* field when the normalizer yields at least one field.
C16_FallbackOnlyWhenEmpty ==
  /\ doc_out.op = "detail" =>
       MetadataFrom(doc_out.metadata, normalized(doc_in.meta),
                    fallback_metadata_from_content(doc_in.legal, doc_in.timeline))
  /\ doc_out.op = "list" =>
       FieldsFrom(doc_out.fields, normalized(doc_in.meta),
                  fallback_metadata_from_content(doc_in.legal, doc_in.timeline))

\* the detail view of a markdown report whose table holds the citation only and
\* whose legal summary names a court has answered with the case number alone
C16_Witness ==
  /\ doc_in.kind = "md" /\ doc_in.legal = RichSummary
  /\ doc_in.meta = join(NL, <<<<"|", " ", "F", "i", "e", "l", "d", " ", "|", " ", "V", "a", "l", "u", "e", " ", "|">>, SeparatorLine, <<"|", " ", "C", "i", "t", "a", "t", "i", "o", "n", " ", "|", " ", "1", "2", "/", "2", "0", "2", "0", " ", "|">>>>)
  /\ HasKey(fallback_metadata_from_content(doc_in.legal, doc_in.timeline), <<"c", "o", "u", "r", "t">>)
  /\ doc_out.op = "detail"
  /\ doc_out.metadata = <<[k |-> <<"c", "a", "s", "e", "_", "n", "u", "m", "b", "e", "r">>, v |-> <<"1", "2", "/", "2", "0", "2", "0">>]>>

\* the rules of the normalizer in their order: the substrings that select the
\* rule and the fields the rule can set
MetaRules ==
  << [pats |-> {<<"f", "u", "l", "l", " ", "c", "o", "u", "r", "t">>}, fields |-> {<<"c", "o", "u", "r", "t">>}],
     [pats |-> {<<"p", "r", "e", "s", "i", "d", "i", "n", "g">>}, fields |-> {<<"j", "u", "d", "g", "e">>}],
     [pats |-> {<<"c", "a", "s", "e", " ", "n", "u", "m", "b", "e", "r">>, <<"c", "i", "t", "a", "t", "i", "o", "n">>}, fields |-> {<<"c", "a", "s", "e", "_", "n", "u", "m", "b", "e", "r">>}],
     [pats |-> {<<"p", "a", "r", "t", "i", "e", "s">>}, fields |-> {<<"p", "a", "r", "t", "i", "e", "s">>}],
     [pats |-> {<<"d", "a", "t", "e">>}, fields |-> {<<"d", "a", "t", "e", "_", "i", "s", "o">>, <<"d", "a", "t", "e", "_", "n", "a", "t", "u", "r", "a", "l">>}] >>
RuleHits(lk) == {n \in 1..Len(MetaRules) : \E pat \in MetaRules[n].pats : Contains(lk, pat)}
\* the fields the first matching rule of a key can set, none without a match
FieldsOfKey(key) ==
  IF RuleHits(strip(lower(strip_bold(key)))) = {} THEN {}
  ELSE MetaRules[First(RuleHits(strip(lower(strip_bold(key)))))].fields
\* the last key of raw whose first matching rule sets the field
LastKeyFor(raw, f) ==
  CHOOSE i \in 1..Len(raw) :
    f \in FieldsOfKey(raw[i].k) /\ \A j \in (i + 1)..Len(raw) : f \notin FieldsOfKey(raw[j].k)
RoutedByFirstRule(raw, out) ==
  /\ KeySet(out) \subseteq UNION {FieldsOfKey(raw[i].k) : i \in 1..Len(raw)}
  /\ \A i \in 1..Len(raw) : FieldsOfKey(raw[i].k) # {} => KeySet(out) \cap FieldsOfKey(raw[i].k) # {}
  /\ \A f \in KeySet(out) \ {<<"d", "a", "t", "e", "_", "i", "s", "o">>, <<"d", "a", "t", "e", "_", "n", "a", "t", "u", "r", "a", "l">>} :
       Get(out, f) = strip_bold(raw[LastKeyFor(raw, f)].v)

\* C17: normalize_metadata routes each table key by the first matching rule
\* in the order "full court", "presiding", "case number" or "citation",
\* "parties", "date": the output holds only fields of the first matching rule
\* of some key (so only the six canonical names, and nothing for a key without
\* a match), every key with a match sets a field of its first rule, and a
\* field other than the dates holds the value of the last key routed to it.
C17_FirstRuleRoutes ==
  doc_out.op = "normalize_metadata" => RoutedByFirstRule(doc_out.raw, doc_out.out)

\* a table with the key "parties and date" has been normalized to the parties
\* field alone
C17_Witness ==
  /\ doc_out.op = "normalize_metadata"
  /\ doc_out.raw = <<[k |-> <<"p", "a", "r", "t", "i", "e", "s", " ", "a", "n", "d", " ", "d", "a", "t", "e">>, v |-> <<"A", " ", "v", "s", " ", "B">>]>>
  /\ doc_out.out = <<[k |-> <<"p", "a", "r", "t", "i", "e", "s">>, v |-> <<"A", " ", "v", "s", " ", "B">>]>>

---------------------------------------------------------------------------
\* Legal summary

NoMarker(legal_raw) == MarkerStarts(legal_raw, 1) = {}
SummaryOf(legal_raw) == <<[title |-> <<"S", "u", "m", "m", "a", "r", "y">>, content |-> legal_raw]>>
\* C18: the legal summary of a non-empty narrative without a numbered-heading
\* marker is exactly one item, titled "Summary", whose content is the narrative
C18_SingleSummary ==
  (doc_out.op = "legal_summary" /\ doc_in.legal # <<>> /\ NoMarker(doc_in.legal))
    => doc_out.items = SummaryOf(doc_in.legal)
\* a narrative without marker does come out as the one item "Summary" when it
\* begins like a numbered heading
C18_SummaryReached ==
  /\ doc_out.op = "legal_summary" /\ doc_in.legal # <<>> /\ NoMarker(doc_in.legal)
  /\ doc_out.items = SummaryOf(doc_in.legal)
\* C18 (amended): a non-empty narrative without a numbered-heading marker
\* gives exactly one item: its stripped text under "Overview", or, when it is
\* blank or begins like a numbered heading, the narrative itself under "Summary"
C18_OverviewOrSummary ==
  (doc_out.op = "legal_summary" /\ doc_in.legal # <<>> /\ NoMarker(doc_in.legal))
    => doc_out.items =
         IF strip(doc_in.legal) # <<>> /\ ~NumberedStart(doc_in.legal)
           THEN <<[title |-> <<"O", "v", "e", "r", "v", "i", "e", "w">>, content |-> strip(doc_in.legal)]>>
         ELSE SummaryOf(doc_in.legal)
C18_Witness ==
  /\ doc_out.op = "legal_summary" /\ NoMarker(doc_in.legal)
  /\ Len(doc_out.items) = 1 /\ doc_out.items[1].title = <<"O", "v", "e", "r", "v", "i", "e", "w">>
  /\ doc_out.items[1].content # doc_in.legal

---------------------------------------------------------------------------
\* Timeline of a markdown report

WalkLines(content) == IF content = <<>> THEN <<>> ELSE split(strip(content), "\n")
BulletWithBold(l) == MatchAt(l, 1, <<"-", " ">>) /\ Contains(l, <<"*", "*">>)
IsTitleLine(l) == replace(strip(l), <<"*">>, <<>>) = <<"C", "h", "r", "o", "n", "o", "l", "o", "g", "i", "c", "a", "l", " ", "E", "v", "e", "n", "t", " ", "T", "i", "m", "e", "l", "i", "n", "e">>
\* the lines of ls that begin with "- " and contain bold markup
BoldBullets(ls) == {i \in 1..Len(ls) : BulletWithBold(ls[i])}
TextBefore(ls, starts) ==
  \E i \in 1..Len(ls) : strip(ls[i]) # <<>> /\ i \notin starts /\ \A j \in starts : i < j
EntriesClaimed(ls, starts) == Cardinality(starts) + (IF TextBefore(ls, starts) THEN 1 ELSE 0)
\* C19: the timeline of a markdown report has one entry per line that begins
\* with "- " and contains bold markup, plus one unlabeled entry when non-empty
\* text precedes the first such line
C19_EntryPerStart ==
  doc_out.op = "timeline" =>
    Len(doc_out.entries) = EntriesClaimed(WalkLines(doc_in.timeline), BoldBullets(WalkLines(doc_in.timeline)))

\* the lines the walk reads: not blank and not the title of the section
ReadLines(ls) == {i \in 1..Len(ls) : strip(ls[i]) # <<>> /\ ~IsTitleLine(ls[i])}
\* the entry-starting line a read line belongs to, 0 before the first one
OwnerOf(j, starts) == IF \E i \in starts : i <= j THEN Last({i \in starts : i <= j}) ELSE 0
Indexes(ls) == [k \in 1..Len(ls) |-> k]
Continuations(ls, starts, i) ==
  SelectSeq(Indexes(ls), LAMBDA j : j \in ReadLines(ls) \ starts /\ OwnerOf(j, starts) = i)
LinesAt(ls, idx) == [k \in 1..Len(idx) |-> ls[idx[k]]]
DetailLines(ls, starts, i) ==
  (IF i = 0 THEN <<>> ELSE StartDetail(ls[i])) \o LinesAt(ls, Continuations(ls, starts, i))
EntryAt(ls, starts, i) ==
  [label |-> IF i = 0 THEN <<>> ELSE StartLabel(ls[i]),
   detail |-> strip(join(NL, DetailLines(ls, starts, i)))]
HasContent(e) == e.label # <<>> \/ e.detail # <<>>
EntriesOf(ls, starts) ==
  SelectSeq([k \in 1..(Len(ls) + 1) |-> IF k - 1 = 0 \/ k - 1 \in starts
                                          THEN EntryAt(ls, starts, k - 1)
                                        ELSE [label |-> <<>>, detail |-> <<>>]],
            HasContent)
\* C19 (amended): blank lines and the title line are left out; a new entry
\* starts only on a line that begins with "- " and contains bold markup; every
\* other line read is continuation detail of the current entry, or of an
\* unlabeled first entry; the entries with a label or a detail are emitted in
\* document order
C19_LineWalk ==
  doc_out.op = "timeline" =>
    doc_out.entries = EntriesOf(WalkLines(doc_in.timeline), BoldBullets(WalkLines(doc_in.timeline)))
\* a labelled entry with a continuation line after an unlabeled first entry
C19_Witness ==
  /\ doc_out.op = "timeline"
  /\ Len(doc_out.entries) = 2
  /\ doc_out.entries[1].label = <<>>
  /\ doc_out.entries[2].label = <<"1", "2", " ", "M", "a", "r", "c", "h", " ", "2", "0", "2", "4">>
  /\ Contains(doc_out.entries[2].detail, NL)

---------------------------------------------------------------------------
\* Audit sub-sections

\* the lines of the audit content the walk takes for a heading
ReadByWalk(l) == ~BlankOrRule(strip(l)) /\ ~ScoreOrLabel(strip(l))
HeadingLines(ls) == {i \in 1..Len(ls) : ReadByWalk(ls[i]) /\ IsHeading(strip(ls[i]))}
NoHeadingIn(content) == content # <<>> /\ HeadingLines(WalkLines(content)) = {}
SummaryOnly(text) ==
  <<[heading |-> <<"A", "u", "d", "i", "t", " ", "S", "u", "m", "m", "a", "r", "y">>, items |-> <<[title |-> <<>>, detail |-> text]>>]>>
\* C20: non-empty audit content in which the walk recognises no heading gives
\* exactly one sub-section "Audit Summary" with a single title-less item whose
\* detail is the whole raw audit content
C20_RawSummary ==
  (doc_out.op = "audit" /\ NoHeadingIn(doc_out.content))
    => doc_out.subsections = SummaryOnly(doc_out.content)
\* C20 (amended): the detail is the audit content without the white space
\* around it, and blank audit content gives no sub-section at all
C20_TrimmedSummary ==
  (doc_out.op = "audit" /\ NoHeadingIn(doc_out.content))
    => doc_out.subsections =
         IF strip(doc_out.content) = <<>> THEN <<>> ELSE SummaryOnly(strip(doc_out.content))
\* a bullet and a score line without heading, with white space around them
C20_Witness ==
  /\ doc_out.op = "audit" /\ NoHeadingIn(doc_out.content)
  /\ doc_out.subsections = SummaryOnly(strip(doc_out.content))
  /\ strip(doc_out.content) # doc_out.content
  /\ Contains(doc_out.content, <<"-", " ", "*", "*", "D", "e", "l", "a", "y", "*", "*">>) /\ Contains(doc_out.content, <<"*", "*", "S", "c", "o", "r", "e", ":", " ", "7", "*", "*">>)

\* the lines of the audit content that are read and are no heading
ItemLines(ls) == {i \in 1..Len(ls) : ReadByWalk(ls[i]) /\ ~IsHeading(strip(ls[i]))}
AllItems(subsections) ==
  UNION {{subsections[k].items[n] : n \in 1..Len(subsections[k].items)} : k \in 1..Len(subsections)}
\* the line is an item of its own, or part of the detail of an item
HeldBy(item, original_line, line) ==
  \/ Contains(item.detail, line)
  \/ /\ bullet_bold_match(line)
     /\ item.title = BulletItem(line).title
     /\ startswith(item.detail, BulletItem(line).detail)
  \/ /\ top_level_match(line) /\ ~Indented(original_line)
     /\ item.title = <<>>
     /\ startswith(item.detail, TopLevelItem(line).detail)
LinesHeld(ls, items) ==
  \A i \in ItemLines(ls) : \E item \in items : HeldBy(item, ls[i], strip(ls[i]))
\* C21: every line of the audit content that is read and is no heading is in
\* the items of an emitted sub-section, also when it stands before the first
\* heading
C21_NoLineLost ==
  doc_out.op = "audit" => LinesHeld(WalkLines(doc_out.content), AllItems(doc_out.subsections))

---------------------------------------------------------------------------
\* Outcome

AcquittedName(f) == startswith(upper(f), <<"A", "C", "Q", "U", "I", "T", "T", "E", "D">>)
ConvictedName(f) == startswith(upper(f), <<"C", "O", "N", "V", "I", "C", "T", "E", "D">>) \/ startswith(upper(f), <<"C", "O", "N", "V", "I", "C", "T", "I", "O", "N">>)
NoKeyword(text) ==
  \A kw \in {<<"f", "o", "u", "n", "d", " ", "g", "u", "i", "l", "t", "y">>, <<"c", "o", "n", "v", "i", "c", "t", "e", "d">>, <<"g", "u", "i", "l", "t", "y", " ", "o", "f", " ", "a", "l", "l", " ", "c", "h", "a", "r", "g", "e", "s">>, <<"c", "o", "n", "v", "i", "c", "t", "i", "o", "n">>,
             <<"a", "c", "q", "u", "i", "t", "t", "e", "d">>, <<"a", "c", "q", "u", "i", "t", "t", "a", "l">>, <<"n", "o", "t", " ", "g", "u", "i", "l", "t", "y">>} : ~Contains(lower(text), kw)
OutcomeAsClaimed(f, text, outcome) ==
  /\ outcome \in {"Acquitted", "Convicted", "Unknown"}
  /\ AcquittedName(f) => outcome = "Acquitted"
  /\ ConvictedName(f) => outcome = "Convicted"
  /\ (~AcquittedName(f) /\ ~ConvictedName(f) /\ Contains(lower(text), <<"f", "o", "u", "n", "d", " ", "g", "u", "i", "l", "t", "y">>))
       => outcome = "Convicted"
  /\ (~AcquittedName(f) /\ ~ConvictedName(f) /\ NoKeyword(text)) => outcome = "Unknown"
\* C22: the outcome is "Acquitted", "Convicted" or "Unknown"; the prefix of
\* the file name decides it whatever the narrative says, and only without a
\* prefix the narrative is asked ("found guilty" gives "Convicted", no keyword
\* gives "Unknown")
C22_PrefixThenNarrative ==
  doc_out.op = "outcome" => OutcomeAsClaimed(doc_in.filename, doc_in.legal, doc_out.outcome)
\* an "acquitted" file name with a narrative of guilt
C22_Witness ==
  /\ doc_out.op = "outcome" /\ doc_out.outcome = "Acquitted"
  /\ startswith(doc_in.filename, <<"a", "c", "q", "u", "i", "t", "t", "e", "d">>)
  /\ Contains(doc_in.legal, <<"f", "o", "u", "n", "d", " ", "g", "u", "i", "l", "t", "y">>)

---------------------------------------------------------------------------
\* Batch aggregate

WithOutcome(analyses, o) == {i \in 1..Len(analyses) : analyses[i].outcome = o}
Scored(analyses) == {i \in 1..Len(analyses) : analyses[i].severity_score.t # "none"}
RECURSIVE ScoreSum(_, _)
ScoreSum(analyses, idx) ==
  IF idx = {} THEN 0
  ELSE analyses[First(idx)].severity_score.v + ScoreSum(analyses, idx \ {First(idx)})
\* avg is the mean of the scores of idx to the nearest tenth, in tenths
IsMean(avg, total, n) ==
  IF n = 0 THEN avg = 0
  ELSE /\ 2 * (avg * n - 10 * total) <= n
       /\ 2 * (10 * total - avg * n) <= n
BatchConsistent(batch, docs) ==
  /\ batch.total = Len(batch.analyses)
  /\ batch.total = Len(docs)
  /\ DOMAIN batch.outcomes = {"Acquitted", "Convicted", "Unknown"}
  /\ \A o \in DOMAIN batch.outcomes :
       batch.outcomes[o] = Cardinality(WithOutcome(batch.analyses, o))
  /\ batch.outcomes["Acquitted"] + batch.outcomes["Convicted"] + batch.outcomes["Unknown"] = batch.total
  /\ IsMean(batch.avg_severity, ScoreSum(batch.analyses, Scored(batch.analyses)),
            Cardinality(Scored(batch.analyses)))
\* C23: in the batch the list view returns, total is the number of entries
\* and of documents, every outcome count is the number of entries with that
\* outcome, the counts add up to total, and the average severity is the mean
\* over the entries that have a score (0 when none has)
C23_AggregateConsistent ==
  doc_out.op = "batch" => BatchConsistent(doc_out, doc_in.docs)
\* three documents of the three kinds, two of them with a score
C23_Witness ==
  /\ doc_out.op = "batch" /\ doc_out.total = 3
  /\ doc_out.analyses[1].source = "Standard" /\ doc_out.analyses[3].source = "NPA"
  /\ doc_out.outcomes["Convicted"] = 2
  /\ Cardinality(Scored(doc_out.analyses)) = 2
  /\ doc_out.avg_severity = 85

---------------------------------------------------------------------------
\* Login gate

GatedPath(path) == ~startswith(path, <<"/", "l", "o", "g", "i", "n">>) /\ ~startswith(path, <<"/", "s", "t", "a", "t", "i", "c">>)
\* a request of a session that is not authenticated to a gated path is
\* answered by the redirect and changes nothing
Gated ==
  (~session.authenticated /\ GatedPath(response'.path))
    => /\ response'.handler = "none" /\ response'.status = "redirect /login"
       /\ UNCHANGED <<session, credentials>>
\* only POST /login with a name and a password that authenticate_user accepts
\* makes the session authenticated
OnlyByLogin ==
  (~session.authenticated /\ session'.authenticated)
    => /\ response'.method = "POST" /\ response'.path = <<"/", "l", "o", "g", "i", "n">>
       /\ response'.handler = "login_submit"
       /\ \E password \in Passwords : authenticate_user(credentials, session'.username, password)
LoggedOut == response'.handler = "logout" => ~session'.authenticated
\* C24: a request outside /login and /static of a session that is not
\* authenticated is redirected to /login and reaches no handler; a session
\* becomes authenticated only by a POST /login that authenticate_user accepts,
\* and is not authenticated after /logout
C24_LoginGate == [][Gated /\ OnlyByLogin /\ LoggedOut]_vars
\* after a login, a change of password and a logout, the settings page is
\* refused
C24_Witness ==
  /\ ~session.authenticated
  /\ response = Redirected("GET", <<"/", "s", "e", "t", "t", "i", "n", "g", "s">>)
  /\ Verifies(credentials.creds, <<"a", "d", "m", "i", "n">>, <<"s", "e", "c", "r", "e", "t", "9">>)

---------------------------------------------------------------------------
\* Changes of the credentials. The stored credentials are what
\* _load_credentials gives: the default account while there is no file.

Stored(file) == load_credentials(file)
\* the accounts of before other than the named one are in after as they were
OthersKept(before, after, username) ==
  \A i \in 1..Len(before) :
    before[i].k # username => (HasKey(after, before[i].k) /\ Get(after, before[i].k) = before[i].v)
PasswordStep(before, after, status, form) ==
  /\ after # before => Verifies(before, form.username, form.current_password)
  /\ status # "Password changed successfully." => after = before
  /\ status = "Password changed successfully."
       => (Verifies(after, form.username, form.new_password) /\ OthersKept(before, after, form.username))
UsernameStep(before, after, status, form) ==
  /\ after # before => Verifies(before, form.current_username, form.password)
  /\ status # "Username changed successfully." => after = before
  /\ status = "Username changed successfully."
       => /\ Len(after) = Len(before)
          /\ OthersKept(before, after, form.current_username)
          /\ Verifies(after, form.new_username, form.password)
CredentialStep ==
  /\ response'.handler = "settings_change_password"
       => PasswordStep(Stored(credentials), Stored(credentials'), response'.status, response'.form)
  /\ response'.handler = "settings_change_username"
       => UsernameStep(Stored(credentials), Stored(credentials'), response'.status, response'.form)
\* C25: change_password and change_username change the stored credentials
\* only when the password given verifies against the hash of the named
\* account; every refusal leaves them as they were; a change of user name
\* keeps the number of accounts and every other account
C25_GuardedChanges == [][CredentialStep]_vars
\* admin renamed to root beside the account bob
C25_Witness ==
  /\ response.handler = "settings_change_username"
  /\ response.status = "Username changed successfully."
  /\ response.form.new_username = <<"r", "o", "o", "t">>
  /\ Len(credentials.creds) = 2
  /\ HasKey(credentials.creds, <<"b", "o", "b">>) /\ HasKey(credentials.creds, <<"r", "o", "o", "t">>)

---------------------------------------------------------------------------
\* Two changes of the credentials at once

\* the credentials show the change the call has made
Reflects(creds, call) ==
  IF call.op = "change_password" THEN Verifies(creds, call.username, call.new)
  ELSE HasKey(creds, call.new) /\ ~HasKey(creds, call.username)
BothSucceeded == \A p \in 1..Len(calls) : calls[p].pc = "done" /\ calls[p].ok
\* C29: when two calls for different accounts have both reported success, the
\* credential file shows both changes
C29_NoLostChange ==
  (Len(calls) = 2 /\ BothSucceeded)
    => \A p \in 1..Len(calls) : Reflects(credentials.creds, calls[p].call)

---------------------------------------------------------------------------
\* The severity of a document in the list view and in the detail view

\* C28: the severity score of a document's list entry (None when the entry
\* has none) equals the severity score of its detail record
C28_ViewsAgree ==
  /\ doc_out.op = "list" => doc_out.severity = detail_severity(AuditSection(doc_in))
  /\ doc_out.op = "detail" => doc_out.severity = list_severity(AuditSection(doc_in))

---------------------------------------------------------------------------
\* The ledger over several calls

\* C26: the cases table never holds two rows with one non-empty corno
C26_CornoUnique ==
  \A i, j \in DOMAIN cases :
    (cases[i].corno = cases[j].corno /\ cases[i].corno \notin {<<>>, None}) => i = j

\* the items of an export that load_from_json stores
IsStored(item) ==
  ~IsPlaceholderCorno(clean_text(item.corno)) /\ normalize_district(item.district) # None
StoredItems(export) == {k \in DOMAIN export : IsStored(export[k])}
KeepsRows(before, after) == Len(after) >= Len(before) /\ SubSeq(after, 1, Len(before)) = before
LoadStep ==
  db_op'.name = "load_from_json" =>
    IF db_op'.raised THEN cases' = cases
    ELSE /\ KeepsRows(cases, cases')
         /\ db_op'.n = Len(cases') - Len(cases)
         /\ db_op'.n = Cardinality(StoredItems(data'))
\* C30: a call of load_from_json that raises leaves the table as it was; one
\* that returns has added as many rows as it reports, one for each item that
\* has neither a placeholder case number nor an excluded district
C30_AllOrNothing == [][LoadStep]_vars
\* a call has raised at its second item, after an item that it had stored,
\* with rows of an earlier call in the table
C30_Witness ==
  /\ db_op.name = "load_from_json" /\ db_op.raised
  /\ Len(data) = 2 /\ IsStored(data[1]) /\ data[2].date = Number
  /\ cases # <<>>

---------------------------------------------------------------------------
\* The verdict of a stored row in SQL and in the Case model

\* C27: VERDICT_SQL gives the label of Case.verdict, and IS_ACTIVE_SQL is 1
\* exactly when Case.is_active is true
C27_SqlAgreesWithCase ==
  doc_out.op = "sql" =>
    /\ doc_out.verdict = verdict(doc_in)
    /\ (doc_out.active = 1) = is_active(doc_in)
====
